---- MODULE Spec2Model ----
(***************************************************************************)
(* Model of the MCP tool-invocation client, lib/mcp_client.py:             *)
(*   parse_mcp_tool_name, get_mcp_server_config, call_mcp_tool_via_stdio,  *)
(*   call_mcp_tool, call_mcp_tools_parallel, call_mcp_tools_parallel_safe. *)
(* Strings that the code inspects character by character are sequences of  *)
(* one-character strings.  A call outcome is a record: a returned value    *)
(* (ok) or a raised exception (type, msg, cause).                          *)
(***************************************************************************)
EXTENDS Integers, Sequences, FiniteSets, TLC

\* ------------------------------------------------------------------ bounds
MaxTail  == 7      \* characters after the first segment of an identifier
MaxLines == 3      \* lines on a server process's output stream
MaxCalls == 2      \* calls in one batch
MaxRetries == 4    \* largest max_retries of a retry configuration
MaxRecords == 2    \* records the workflow's query returns

\* ------------------------------------------------------------------- state
VARIABLES
    mode,       \* the public operation the caller invoked
    calls,      \* its argument: the list of call descriptors
    env,        \* MCP_CONFIG_PATH and the configuration files
    caller,     \* "call" -> "awaiting" -> "resumed"
    pc,         \* per call_mcp_tool coroutine: its suspension point
    req,        \* per coroutine: the request and launch command it built
    res,        \* per coroutine: its outcome once done
    order,      \* coroutines in completion order
    nfinished,  \* asyncio.gather: finished children
    outer,      \* asyncio.gather: the future the caller awaits
    ret,        \* what the caller got back
    nextId,     \* source of fresh request ids (uuid4)
    trace,      \* per coroutine: what it has done so far, in order
    proc,       \* per coroutine: the server process it started
    fn, arg, out  \* one direct application of a helper function

vars == <<mode, calls, env, caller, pc, req, res, order, nfinished, outer, ret,
          nextId, trace, proc, fn, arg, out>>

\* ------------------------------------------------------------ call outcomes
NoVal == <<>>

Return(v) == [ok |-> TRUE, val |-> v, type |-> "none", msg |-> <<>>, cause |-> <<>>]

Raise(t, m) == [ok |-> FALSE, val |-> NoVal, type |-> t, msg |-> m, cause |-> <<>>]

\* raise X(...) from e
RaiseFrom(t, m, e) == [ok |-> FALSE, val |-> NoVal, type |-> t, msg |-> m, cause |-> <<e>>]

\* str(exception)
StrOf(e) == e.msg

\* ------------------------------------------------------- parse_mcp_tool_name
mcp == <<"m", "c", "p">>

\* str.split('__'): leftmost, non-overlapping occurrences of the separator.
RECURSIVE SplitFrom(_, _, _)
SplitFrom(s, i, cur) ==
    IF i > Len(s) THEN <<cur>>
    ELSE IF i < Len(s) /\ s[i] = "_" /\ s[i + 1] = "_"
         THEN <<cur>> \o SplitFrom(s, i + 2, <<>>)
         ELSE SplitFrom(s, i + 1, Append(cur, s[i]))

Split(s) == SplitFrom(s, 1, <<>>)

\* Variant: the two components returned in the wrong order.
parse_swapped(tool_name) ==
    LET parts == Split(tool_name)
    IN  IF Len(parts) # 3 \/ parts[1] # mcp
        THEN Raise("ValueError", <<"Invalid MCP tool name format", tool_name>>)
        ELSE Return(<<parts[3], parts[2]>>)

parse_mcp_tool_name(tool_name) ==
    LET parts == Split(tool_name)
    IN  IF Len(parts) # 3 \/ parts[1] # mcp
        THEN Raise("ValueError", <<"Invalid MCP tool name format", tool_name>>)
        ELSE Return(<<parts[2], parts[3]>>)

\* ----------------------------------------------------- get_mcp_server_config
\* The environment e: the value of MCP_CONFIG_PATH ("unset", "" or a path) and
\* the content found at the two paths the code can look at.
HomePath == "~/.mcp.json"
EnvPath  == "/etc/mcp.json"

Absent    == [kind |-> "absent",    hasKey |-> FALSE, servers |-> <<>>]
Malformed == [kind |-> "malformed", hasKey |-> FALSE, servers |-> <<>>]
NoSection == [kind |-> "doc",       hasKey |-> FALSE, servers |-> <<>>]

Document(servers) == [kind |-> "doc", hasKey |-> TRUE, servers |-> servers]

\* Variant: the path under the home directory is tried when there is no file
\* at the path the environment names.
ConfigPathFallback(e) ==
    IF e.var \in {"unset", ""} THEN HomePath
    ELSE IF e.files[e.var].kind = "absent" THEN HomePath
    ELSE e.var

\* MCP_CONFIG_PATH if it is set and not empty, else ~/.mcp.json
ConfigPath(e) == IF e.var \in {"unset", ""} THEN HomePath ELSE e.var

\* Variant: config['mcpServers'].get(server_name, {}) in place of the
\* membership test.
get_config_with_default(e, server_name) ==
    LET config_path == ConfigPath(e)
        config      == e.files[config_path]
    IN  IF config.kind = "absent"
        THEN Raise("FileNotFoundError", <<"MCP config file not found", config_path>>)
        ELSE IF config.kind = "malformed"
        THEN Raise("MCPError", <<"Invalid JSON in MCP config">>)
        ELSE IF ~config.hasKey
        THEN Raise("MCPError", <<"No 'mcpServers' key in config", config_path>>)
        ELSE IF server_name \notin DOMAIN config.servers
        THEN Return([command |-> "", hasArgs |-> FALSE, args |-> <<>>])
        ELSE Return(config.servers[server_name])

\* Variant: config.get('mcpServers', {}) in place of the test for the key.
get_config_section_default(e, server_name) ==
    LET config_path == ConfigPath(e)
        config      == e.files[config_path]
    IN  IF config.kind = "absent"
        THEN Raise("FileNotFoundError", <<"MCP config file not found", config_path>>)
        ELSE IF config.kind = "malformed"
        THEN Raise("MCPError", <<"Invalid JSON in MCP config">>)
        ELSE IF ~config.hasKey \/ server_name \notin DOMAIN config.servers
        THEN Raise("MCPError", <<"MCP server not found in config", server_name, config_path>>)
        ELSE Return(config.servers[server_name])

\* Variant: the configuration is loaded at the first resolution and kept.
get_config_cached(e, server_name) ==
    LET first       == IF trace # <<>> THEN trace[1] ELSE e
        config_path == ConfigPath(e)
        config      == first.files[config_path]
    IN  IF config.kind = "absent"
        THEN Raise("FileNotFoundError", <<"MCP config file not found", config_path>>)
        ELSE IF config.kind = "malformed"
        THEN Raise("MCPError", <<"Invalid JSON in MCP config">>)
        ELSE IF ~config.hasKey
        THEN Raise("MCPError", <<"No 'mcpServers' key in config", config_path>>)
        ELSE IF server_name \notin DOMAIN config.servers
        THEN Raise("MCPError", <<"MCP server not found in config", server_name, config_path>>)
        ELSE Return(config.servers[server_name])

get_mcp_server_config(e, server_name) ==
    LET config_path == ConfigPath(e)
        config      == e.files[config_path]
    IN  IF config.kind = "absent"
        THEN Raise("FileNotFoundError", <<"MCP config file not found", config_path>>)
        ELSE IF config.kind = "malformed"
        THEN Raise("MCPError", <<"Invalid JSON in MCP config">>)
        ELSE IF ~config.hasKey
        THEN Raise("MCPError", <<"No 'mcpServers' key in config", config_path>>)
        ELSE IF server_name \notin DOMAIN config.servers
        THEN Raise("MCPError", <<"MCP server not found in config", server_name, config_path>>)
        ELSE Return(config.servers[server_name])

\* -------------------------------------- call_mcp_tool_via_stdio: the response
\* One line of the output stream, as json.loads sees it.
\*   bad    : not JSON (json.JSONDecodeError)
\*   blank  : empty or whitespace only
\*   obj    : a JSON object; keys is its key set, error/result the two values
\*   str    : a JSON string; has = the needles that occur in it as substrings
\*   list   : a JSON array;  has = the needles that are elements of it
\*   num, bool, null : the JSON scalars
Needles == {"error", "result"}

Line(t, has, e, r) == [t |-> t, has |-> has, error |-> e, result |-> r]

BadLine   == Line("bad", {}, 0, 0)
BlankLine == Line("blank", {}, 0, 0)

json_dumps(v) == <<"json", v>>

\* `needle in response`; "TypeError" when response is not a container.
Contains(response, needle) ==
    IF response.t \in {"num", "bool", "null"} THEN "TypeError"
    ELSE IF needle \in response.has THEN "yes" ELSE "no"

\* response[needle]; only a JSON object can be indexed by a string.
Subscript(response, needle) ==
    IF response.t # "obj" THEN Raise("TypeError", <<"indices must be integers">>)
    ELSE IF needle = "error" THEN Return(response.error) ELSE Return(response.result)

Continue == [ok |-> TRUE, val |-> NoVal, type |-> "continue", msg |-> <<>>, cause |-> <<>>]

\* Variant: 'result' looked up before 'error'.
ScanLineResultFirst(line) ==
    IF line.t = "blank" THEN Continue
    ELSE IF line.t = "bad" THEN Continue
    ELSE IF Contains(line, "result") = "TypeError"
    THEN Raise("TypeError", <<"argument is not iterable">>)
    ELSE IF Contains(line, "result") = "yes"
    THEN Subscript(line, "result")
    ELSE IF Contains(line, "error") = "yes"
    THEN IF Subscript(line, "error").ok
         THEN Raise("MCPError", <<"MCP tool error", json_dumps(Subscript(line, "error").val)>>)
         ELSE Subscript(line, "error")
    ELSE Continue

\* Variant: json.JSONDecodeError is not caught.
ScanLineDecodeFatal(line) ==
    IF line.t = "blank" THEN Continue
    ELSE IF line.t = "bad" THEN Raise("JSONDecodeError", <<"Expecting value">>)
    ELSE IF Contains(line, "error") = "TypeError"
    THEN Raise("TypeError", <<"argument is not iterable">>)
    ELSE IF Contains(line, "error") = "yes"
    THEN IF Subscript(line, "error").ok
         THEN Raise("MCPError", <<"MCP tool error", json_dumps(Subscript(line, "error").val)>>)
         ELSE Subscript(line, "error")
    ELSE IF Contains(line, "result") = "yes"
    THEN Subscript(line, "result")
    ELSE Continue

\* The body of `for line in lines`: Continue, a returned value or an exception.
ScanLine(line) ==
    IF line.t = "blank" THEN Continue
    ELSE IF line.t = "bad" THEN Continue
    ELSE IF Contains(line, "error") = "TypeError"
    THEN Raise("TypeError", <<"argument is not iterable">>)
    ELSE IF Contains(line, "error") = "yes"
    THEN IF Subscript(line, "error").ok
         THEN Raise("MCPError", <<"MCP tool error", json_dumps(Subscript(line, "error").val)>>)
         ELSE Subscript(line, "error")
    ELSE IF Contains(line, "result") = "yes"
    THEN Subscript(line, "result")
    ELSE Continue

IsBlank(line) == line.t = "blank"

\* stdout_text.strip().split('\n') on a stream given as its lines.
RECURSIVE LStrip(_)
LStrip(ls) == IF ls # <<>> /\ IsBlank(Head(ls)) THEN LStrip(Tail(ls)) ELSE ls

RECURSIVE RStrip(_)
RStrip(ls) ==
    IF ls # <<>> /\ IsBlank(ls[Len(ls)]) THEN RStrip(SubSeq(ls, 1, Len(ls) - 1)) ELSE ls

StripSplit(stdout) ==
    LET s == RStrip(LStrip(stdout)) IN IF s = <<>> THEN <<BlankLine>> ELSE s

\* Variant: the scan goes on after a record has matched, the last one wins.
RECURSIVE ScanFromLastWins(_, _)
ScanFromLastWins(lines, i) ==
    IF i > Len(lines) THEN Raise("MCPError", <<"No valid MCP response received">>)
    ELSE IF ScanLine(lines[i]).type = "continue" THEN ScanFromLastWins(lines, i + 1)
    ELSE IF ScanFromLastWins(lines, i + 1) = Raise("MCPError", <<"No valid MCP response received">>)
         THEN ScanLine(lines[i])
         ELSE ScanFromLastWins(lines, i + 1)

\* `for line in lines: ...` from line i on, then the raise after the loop.
RECURSIVE ScanFrom(_, _)
ScanFrom(lines, i) ==
    IF i > Len(lines) THEN Raise("MCPError", <<"No valid MCP response received">>)
    ELSE IF ScanLine(lines[i]).type = "continue" THEN ScanFrom(lines, i + 1)
    ELSE ScanLine(lines[i])

ParseResponse(stdout) == ScanFrom(StripSplit(stdout), 1)

\* The diagnostic stream of a server process: nothing, text, or bytes that
\* are not UTF-8.
Diagnostics == {"", "warning: slow", "\\xff\\xfe"}

\* stderr.decode('utf-8', errors='replace'): undecodable bytes are replaced.
DecodeReplace(bytes) == IF bytes = "\\xff\\xfe" THEN "??" ELSE bytes

\* `if stderr: print(f"MCP server stderr: {stderr_text}", file=sys.stderr)`:
\* what is written to the caller's own diagnostic stream.
StderrLog(stderr) ==
    IF stderr = "" THEN <<>> ELSE <<"MCP server stderr", DecodeReplace(stderr)>>

\* Variant: output on the diagnostic stream treated as a failure.
AfterCommunicateStderrFatal(stdout, stderr) ==
    IF stderr # "" THEN Raise("MCPError", <<"MCP server stderr", DecodeReplace(stderr)>>)
    ELSE ParseResponse(stdout)

\* call_mcp_tool_via_stdio from the return of process.communicate on: stderr
\* is logged, stdout is scanned for the response.
AfterCommunicate(stdout, stderr) == ParseResponse(stdout)

\* ------------------------------------------------------------ call_mcp_tool
\* except Exception as e: raise MCPError(f"Failed to call MCP tool ...") from e
WrapFailure(tool_name, o) ==
    IF o.ok THEN o
    ELSE RaiseFrom("MCPError", <<"Failed to call MCP tool", tool_name, StrOf(o)>>, o)

\* Variant: server_config.get('args'), which is None without the field.
ArgsNoDefault(server_config) ==
    IF server_config.hasArgs THEN server_config.args ELSE <<"None">>

\* server_config.get('args', [])
Args(server_config) == IF server_config.hasArgs THEN server_config.args ELSE <<>>

\* The request object of call_mcp_tool_via_stdio(server_config, tool_name,
\* parameters); id stands for str(uuid4()).
Request(id, tool_name, parameters) ==
    [jsonrpc |-> "2.0",
     id      |-> id,
     method  |-> "tools/call",
     params  |-> [name |-> tool_name, arguments |-> parameters]]

\* Variant: the parameters passed on as given, None included.
ParametersAsGiven(call) == call.parameters

\* call.get('parameters', {}), then `if parameters is None: parameters = {}`
Parameters(call) == IF call.parameters \in {"absent", "None"} THEN "{}" ELSE call.parameters

\* ----------------------------------------------------------- state, continued
NotYet == [ok |-> FALSE, val |-> NoVal, type |-> "pending", msg |-> <<>>, cause |-> <<>>]

NoReq == [id |-> 0, name |-> <<>>, arguments |-> "{}", command |-> "", args |-> <<>>]

\* A server process: the argument vector it was started with, what was
\* written to its input and, once it has exited, what it wrote to its output.
NoProc == [state |-> "none", argv |-> <<>>, stdin |-> <<>>, stdout |-> <<>>]

N == Len(calls)

\* --------------------------------------------------------- inputs of the model
IdOk      == <<"m","c","p","_","_","a","_","_","t">>       \* mcp__a__t
IdOther   == <<"m","c","p","_","_","b","_","_","t">>       \* mcp__b__t
IdNoMcp   == <<"a","_","_","t">>                           \* a__t

Entry(cmd, hasArgs, args) == [command |-> cmd, hasArgs |-> hasArgs, args |-> args]

E1 == Entry("node", TRUE, <<"s.js", "-v">>)
E2 == Entry("node", TRUE, <<"-v", "s.js">>)
E3 == Entry("python", FALSE, <<>>)

ServerNames == {<<"a">>, <<"b">>, <<>>}

CallSet ==
    { [tool |-> IdOk,    parameters |-> "absent"],
      [tool |-> IdOther, parameters |-> "p2"],
      [tool |-> IdNoMcp, parameters |-> "p1"] }

Batches == UNION { [1..n -> CallSet] : n \in 0..MaxCalls }

Environment(var, home, other) ==
    [var |-> var, files |-> [p \in {HomePath, EnvPath} |-> IF p = HomePath THEN home ELSE other]]

EnvSet ==
    { Environment("unset", Document(<<"a">> :> E1), Absent),
      Environment(EnvPath, Document(<<"a">> :> E1), Absent),
      Environment(EnvPath, Absent, Document((<<"a">> :> E3) @@ (<<"b">> :> E2))) }

Obj(has, e, r) == Line("obj", has, e, r)

MainStreams ==
    { <<>>,
      <<BadLine, Obj({"result"}, 0, 1)>>,
      <<Obj({"result"}, 0, 2), Obj({"error"}, 1, 0)>>,
      <<Obj({"error"}, 2, 0)>> }

LaunchOutcomes == {"ok", "FileNotFoundError", "PermissionError"}

Init ==
    /\ mode \in {"call_mcp_tool", "call_mcp_tools_parallel", "call_mcp_tools_parallel_safe"}
    /\ calls \in Batches
    /\ mode = "call_mcp_tool" => Len(calls) = 1
    /\ env \in EnvSet
    /\ caller = "call"
    /\ pc = [i \in 1..Len(calls) |-> "created"]
    /\ req = [i \in 1..Len(calls) |-> NoReq]
    /\ res = [i \in 1..Len(calls) |-> NotYet]
    /\ order = <<>>
    /\ nfinished = 0
    /\ outer = NotYet
    /\ ret = NotYet
    /\ nextId = 1
    /\ trace = [i \in 1..Len(calls) |-> <<>>]
    /\ proc = [i \in 1..Len(calls) |-> NoProc]
    /\ fn = "none" /\ arg = <<>> /\ out = NotYet

\* ------------------------------------------------------------ asyncio.gather
\* The children of gather(*tasks): the coroutines in argument order.
Children == [j \in 1..N |-> j]

\* Variant: the results collected from the last child to the first.
GatherReversed(children, r) ==
    [k \in 1..Len(children) |-> r[children[Len(children) + 1 - k]]]

\* Variant: the results collected in the order the children finished.
GatherInCompletionOrder(children, r) == [k \in 1..Len(children) |-> r[order'[k]]]

\* The results the outer future gets when the last child finishes: one per
\* child, read from the children in the order they were passed; r maps a
\* child to its outcome.
GatherResults(children, r) == [k \in 1..Len(children) |-> r[children[k]]]

\* Variant: exceptions collected like results in both batch operations.
DoneCallbackNoFailFast(o, n, r) ==
    IF mode = "call_mcp_tool" \/ outer.type # "pending" THEN outer
    ELSE IF n = N THEN Return(GatherResults(Children, r))
    ELSE outer

\* Variant: return_exceptions ignored, the first exception always set.
DoneCallbackAlwaysFailFast(o, n, r) ==
    IF mode = "call_mcp_tool" \/ outer.type # "pending" THEN outer
    ELSE IF ~o.ok THEN o
    ELSE IF n = N THEN Return(GatherResults(Children, r))
    ELSE outer

\* Variant: the results set as soon as one child has finished.
DoneCallbackFirstDone(o, n, r) ==
    IF mode = "call_mcp_tool" \/ outer.type # "pending" THEN outer
    ELSE IF mode = "call_mcp_tools_parallel" /\ ~o.ok THEN o
    ELSE IF n >= 1 THEN Return(GatherResults(Children, r))
    ELSE outer

\* Variant: the results set one child early.
DoneCallbackOneEarly(o, n, r) ==
    IF mode = "call_mcp_tool" \/ outer.type # "pending" THEN outer
    ELSE IF mode = "call_mcp_tools_parallel" /\ ~o.ok THEN o
    ELSE IF n >= N - 1 THEN Return(GatherResults(Children, r))
    ELSE outer

\* Variant: a later exception replaces the one already set.
DoneCallbackLastFailure(o, n, r) ==
    IF mode = "call_mcp_tool" \/ outer.ok THEN outer
    ELSE IF mode = "call_mcp_tools_parallel" /\ ~o.ok THEN o
    ELSE IF outer.type # "pending" THEN outer
    ELSE IF n = N THEN Return(GatherResults(Children, r))
    ELSE outer

\* gather's _done_callback for a child that finished with outcome o, when n
\* children have finished and r maps each child to its outcome.  Without
\* return_exceptions the first exception is set on the outer future at once.
DoneCallback(o, n, r) ==
    IF mode = "call_mcp_tool" \/ outer.type # "pending" THEN outer
    ELSE IF mode = "call_mcp_tools_parallel" /\ ~o.ok THEN o
    ELSE IF n = N THEN Return(GatherResults(Children, r))
    ELSE outer

\* Variant: a failure in the fail-fast batch cancels the sibling coroutines.
FinishCancelSiblings(i, o) ==
    /\ pc' = [j \in 1..N |->
                IF j = i \/ (mode = "call_mcp_tools_parallel" /\ ~o.ok) THEN "done" ELSE pc[j]]
    /\ res' = [res EXCEPT ![i] = o]
    /\ order' = Append(order, i)
    /\ nfinished' = nfinished + 1
    /\ outer' = DoneCallback(o, nfinished', res')

\* A call_mcp_tool coroutine ends with outcome o.
Finish(i, o) ==
    /\ pc' = [pc EXCEPT ![i] = "done"]
    /\ res' = [res EXCEPT ![i] = o]
    /\ order' = Append(order, i)
    /\ nfinished' = nfinished + 1
    /\ outer' = DoneCallback(o, nfinished', res')

\* ------------------------------------------------------------------ actions
\* Variant: the configuration is read before the identifier is checked.
StartEventsEagerConfig(parsed, config) ==
    IF ~parsed.ok THEN <<"read_config", "parse">>
    ELSE IF ~config.ok THEN <<"read_config", "parse">>
    ELSE <<"read_config", "parse", "build_request", "spawn">>

\* What call_mcp_tool does up to create_subprocess_exec: the identifier is
\* parsed; only then the configuration is read; only then the request is
\* built and the server command started.
StartEvents(parsed, config) ==
    IF ~parsed.ok THEN <<"parse">>
    ELSE IF ~config.ok THEN <<"parse", "read_config">>
    ELSE <<"parse", "read_config", "build_request", "spawn">>

\* Variant: the request written once directly and once more by communicate.
LaunchEventsWriteTwice(how) ==
    IF how = "ok" THEN <<"launched", "write_request", "write_request", "close_stdin">>
    ELSE <<"launch_failed">>

\* What follows create_subprocess_exec: on success process.communicate writes
\* the request line to the process's input and closes it.
LaunchEvents(how) ==
    IF how = "ok" THEN <<"launched", "write_request", "close_stdin">>
    ELSE <<"launch_failed">>

\* communicate returns when the process has exited; then stdout is decoded.
ExitEvents == <<"exit", "decode">>

\* The caller invokes the operation; the batch operations create one
\* coroutine per call and await gather(*tasks).  gather() of nothing is done.
Dispatch ==
    /\ caller = "call"
    /\ caller' = "awaiting"
    /\ pc' = [i \in 1..N |-> "ready"]
    /\ outer' = IF mode # "call_mcp_tool" /\ N = 0 THEN Return(<<>>) ELSE outer
    /\ UNCHANGED <<mode, calls, env, req, res, order, nfinished, ret, nextId, trace, proc, fn, arg, out>>

\* Variant: once a call of the batch has failed, the calls that have not yet
\* started are dropped.
StartCallUnlessFailed(i) ==
    /\ pc[i] = "ready"
    /\ \A j \in 1..N : pc[j] = "done" => res[j].ok
    /\ LET tool_name == calls[i].tool
           parsed    == parse_mcp_tool_name(tool_name)
           config    == get_mcp_server_config(env, parsed.val[1])
       IN  /\ trace' = [trace EXCEPT ![i] = @ \o StartEvents(parsed, config)]
           /\ IF ~parsed.ok
              THEN Finish(i, parsed) /\ UNCHANGED <<req, nextId>>
              ELSE IF ~config.ok
              THEN Finish(i, config) /\ UNCHANGED <<req, nextId>>
              ELSE /\ req' = [req EXCEPT ![i] =
                                 [id        |-> nextId,
                                  name      |-> parsed.val[2],
                                  arguments |-> Parameters(calls[i]),
                                  command   |-> config.val.command,
                                  args      |-> Args(config.val)]]
                   /\ nextId' = nextId + 1
                   /\ pc' = [pc EXCEPT ![i] = "launching"]
                   /\ UNCHANGED <<res, order, nfinished, outer>>
    /\ UNCHANGED <<mode, calls, env, caller, ret, proc, fn, arg, out>>

\* call_mcp_tool up to its first suspension: parse, resolve, build the request.
StartCall(i) ==
    /\ pc[i] = "ready"
    /\ LET tool_name == calls[i].tool
           parsed    == parse_mcp_tool_name(tool_name)
           config    == get_mcp_server_config(env, parsed.val[1])
       IN  /\ trace' = [trace EXCEPT ![i] = @ \o StartEvents(parsed, config)]
           /\ IF ~parsed.ok
              THEN Finish(i, parsed) /\ UNCHANGED <<req, nextId>>
              ELSE IF ~config.ok
              THEN Finish(i, config) /\ UNCHANGED <<req, nextId>>
              ELSE /\ req' = [req EXCEPT ![i] =
                                 [id        |-> nextId,
                                  name      |-> parsed.val[2],
                                  arguments |-> Parameters(calls[i]),
                                  command   |-> config.val.command,
                                  args      |-> Args(config.val)]]
                   /\ nextId' = nextId + 1
                   /\ pc' = [pc EXCEPT ![i] = "launching"]
                   /\ UNCHANGED <<res, order, nfinished, outer>>
    /\ UNCHANGED <<mode, calls, env, caller, ret, proc, fn, arg, out>>

\* The outcome of call_mcp_tool_via_stdio when create_subprocess_exec raised:
\* `except FileNotFoundError` turns that one into MCPError, any other
\* exception leaves the function as it is.
LaunchFailure(how, command) ==
    IF how = "FileNotFoundError"
    THEN Raise("MCPError", <<"MCP server command not found", command>>)
    ELSE Raise(how, <<"cannot execute", command>>)

\* Variant: after a first failed launch the call starts over.
LaunchProcessRetry(i) ==
    /\ pc[i] = "launching"
    /\ \E how \in LaunchOutcomes :
         /\ trace' = [trace EXCEPT ![i] = @ \o LaunchEvents(how)]
         /\ IF how = "ok"
            THEN /\ pc' = [pc EXCEPT ![i] = "running"]
                 /\ proc' = [proc EXCEPT ![i] =
                                [state  |-> "running",
                                 argv   |-> <<req[i].command>> \o req[i].args,
                                 stdin  |-> <<Request(req[i].id, req[i].name, req[i].arguments)>>,
                                 stdout |-> <<>>]]
                 /\ UNCHANGED <<res, order, nfinished, outer>>
            ELSE IF ~(\E k \in 1..Len(trace[i]) : trace[i][k] = "launch_failed")
            THEN /\ pc' = [pc EXCEPT ![i] = "ready"]
                 /\ UNCHANGED <<res, order, nfinished, outer, proc>>
            ELSE /\ Finish(i, WrapFailure(calls[i].tool, LaunchFailure(how, req[i].command)))
                 /\ UNCHANGED proc
    /\ UNCHANGED <<mode, calls, env, caller, req, ret, nextId, fn, arg, out>>

\* asyncio.create_subprocess_exec completes: the process runs, or the launch
\* failed.  Only FileNotFoundError has a handler of its own.
LaunchProcess(i) ==
    /\ pc[i] = "launching"
    /\ \E how \in LaunchOutcomes :
         /\ trace' = [trace EXCEPT ![i] = @ \o LaunchEvents(how)]
         /\ IF how = "ok"
            THEN /\ pc' = [pc EXCEPT ![i] = "running"]
                 /\ proc' = [proc EXCEPT ![i] =
                                [state  |-> "running",
                                 argv   |-> <<req[i].command>> \o req[i].args,
                                 stdin  |-> <<Request(req[i].id, req[i].name, req[i].arguments)>>,
                                 stdout |-> <<>>]]
                 /\ UNCHANGED <<res, order, nfinished, outer>>
            ELSE /\ Finish(i, WrapFailure(calls[i].tool, LaunchFailure(how, req[i].command)))
                 /\ UNCHANGED proc
    /\ UNCHANGED <<mode, calls, env, caller, req, ret, nextId, fn, arg, out>>

\* Variant: all coroutines read from one shared buffer, which keeps the
\* output of the process of the batch that exited first.
CommunicateShared(i, p) ==
    p[CHOOSE k \in DOMAIN p :
        /\ p[k].state = "exited"
        /\ \A j \in 1..(k - 1) : p[j].state # "exited"].stdout

\* `stdout, stderr = await process.communicate(...)` in coroutine i: the
\* output of the process that this coroutine started; p is the process table.
Communicate(i, p) == p[i].stdout

\* process.communicate returns: the process has exited, its output is scanned.
\* The other coroutines' processes are unaffected.
ProcessExit(i, streams) ==
    /\ pc[i] = "running"
    /\ \E stdout \in streams, stderr \in Diagnostics :
         /\ proc' = [proc EXCEPT ![i].state = "exited", ![i].stdout = stdout]
         /\ Finish(i, WrapFailure(calls[i].tool,
                                  AfterCommunicate(Communicate(i, proc'), stderr)))
    /\ trace' = [trace EXCEPT ![i] = @ \o ExitEvents]
    /\ UNCHANGED <<mode, calls, env, caller, req, ret, nextId, fn, arg, out>>

\* Variant: a failed call reported as a success without data.
SafeOutcomeDefault(result) ==
    IF result.ok THEN [success |-> TRUE, data |-> result.val, error |-> <<>>]
    ELSE              [success |-> TRUE, data |-> NoVal,      error |-> <<>>]

\* {'success': True, 'data': result} or {'success': False, 'error': str(result)}
SafeOutcome(result) ==
    IF result.ok THEN [success |-> TRUE,  data |-> result.val, error |-> <<>>]
    ELSE              [success |-> FALSE, data |-> NoVal,      error |-> StrOf(result)]

\* `await call_mcp_tool(...)` of a direct caller resumes.
ResumeSingle ==
    /\ mode = "call_mcp_tool" /\ caller = "awaiting" /\ pc[1] = "done"
    /\ ret' = res[1]
    /\ caller' = "resumed"
    /\ UNCHANGED <<mode, calls, env, pc, req, res, order, nfinished, outer, nextId, trace,
                   proc, fn, arg, out>>

\* `return await asyncio.gather(*tasks)` resumes with the outer future's outcome.
ResumeParallel ==
    /\ mode = "call_mcp_tools_parallel" /\ caller = "awaiting" /\ outer.type # "pending"
    /\ ret' = outer
    /\ caller' = "resumed"
    /\ UNCHANGED <<mode, calls, env, pc, req, res, order, nfinished, outer, nextId, trace,
                   proc, fn, arg, out>>

\* gather(..., return_exceptions=True) resumes; the outcomes are converted.
ResumeParallelSafe ==
    /\ mode = "call_mcp_tools_parallel_safe" /\ caller = "awaiting" /\ outer.type # "pending"
    /\ ret' = Return([j \in 1..Len(outer.val) |-> SafeOutcome(outer.val[j])])
    /\ caller' = "resumed"
    /\ UNCHANGED <<mode, calls, env, pc, req, res, order, nfinished, outer, nextId, trace,
                   proc, fn, arg, out>>

Next ==
    \/ Dispatch
    \/ \E i \in 1..N : StartCall(i)
    \/ \E i \in 1..N : LaunchProcess(i)
    \/ \E i \in 1..N : ProcessExit(i, MainStreams)
    \/ ResumeSingle
    \/ ResumeParallel
    \/ ResumeParallelSafe

Spec == Init /\ [][Next]_vars

\* ------------------------------------- call_mcp_tools_parallel_safe, scheduled
\* The batch operation that collects failures, under the scheduling the code
\* runs with: the event loop runs every coroutine that is ready, a pending
\* create_subprocess_exec completes, and every server process that was
\* started exits.
LiveCalls ==
    { [tool |-> IdOk,    parameters |-> "absent"],
      [tool |-> IdOther, parameters |-> "p2"],
      [tool |-> IdNoMcp, parameters |-> "p1"] }

LiveStreams == { <<>>, <<Obj({"result"}, 0, 1)>> }

InitLive ==
    /\ Init
    /\ mode = "call_mcp_tools_parallel_safe"
    /\ \A i \in 1..Len(calls) : calls[i] \in LiveCalls

NextLive ==
    \/ Dispatch
    \/ \E i \in 1..N : StartCall(i)
    \/ \E i \in 1..N : LaunchProcess(i)
    \/ \E i \in 1..N : ProcessExit(i, LiveStreams)
    \/ ResumeParallelSafe

Fairness ==
    /\ WF_vars(Dispatch)
    /\ WF_vars(ResumeParallelSafe)
    /\ \A i \in 1..MaxCalls :
         /\ WF_vars(i <= N /\ StartCall(i))
         /\ WF_vars(i <= N /\ LaunchProcess(i))
         /\ WF_vars(i <= N /\ ProcessExit(i, LiveStreams))

SpecLive == InitLive /\ [][NextLive]_vars /\ Fairness

\* ------------------------------------------- the helper functions on their own
\* One application of parse_mcp_tool_name, get_mcp_server_config or the
\* response scan of call_mcp_tool_via_stdio to an argument drawn from a
\* bounded set; out is NotYet until the function has been applied.
SeqsUpTo(S, n) == UNION { [1..k -> S] : k \in 0..n }

Prefixes == { mcp, <<"m", "c">>, <<"x", "c", "p">>, <<>> }

TailChars == {"_", "a", "t"}

Identifiers == { p \o t : p \in Prefixes, t \in SeqsUpTo(TailChars, MaxTail) }

Entries == {E1, E2, E3}

Documents ==
    UNION { [S -> Entries] : S \in SUBSET {<<"a">>, <<"b">>} }

Contents == {Absent, Malformed, NoSection} \cup { Document(d) : d \in Documents }

Environments ==
    { Environment(v, h, o) : v \in {"unset", "", EnvPath}, h \in Contents, o \in Contents }

Payloads == {1, 2}

Lines ==
    {BadLine, BlankLine}
    \cup { Obj(has, e, r) : has \in SUBSET Needles, e \in Payloads \cup {0}, r \in Payloads \cup {0} }
    \cup { Line(t, {}, 0, 0) : t \in {"num", "bool", "null"} }
    \cup { Line(t, has, 0, 0) : t \in {"str", "list"}, has \in SUBSET Needles }

\* An object has a value for exactly the keys it has.
WellFormedLine(l) ==
    l.t = "obj" => /\ ("error" \in l.has) = (l.error # 0)
                   /\ ("result" \in l.has) = (l.result # 0)

Streams == SeqsUpTo({ l \in Lines : WellFormedLine(l) }, MaxLines)

NoEnv == Environment("unset", Absent, Absent)

\* What process.communicate can return: (stdout, stderr).
ProcessOutputs ==
    SeqsUpTo({ l \in Lines : WellFormedLine(l) }, MaxLines - 1) \X Diagnostics

UnitInit ==
    /\ \/ fn = "parse"   /\ arg \in Identifiers
       \/ fn = "resolve" /\ arg \in Environments \X ServerNames
       \/ fn = "scan"    /\ arg \in Streams
       \/ fn = "communicate" /\ arg \in ProcessOutputs
    /\ out = NotYet
    /\ mode = "none" /\ calls = <<>> /\ env = NoEnv /\ caller = "idle"
    /\ pc = <<>> /\ req = <<>> /\ res = <<>> /\ order = <<>>
    /\ nfinished = 0 /\ outer = NotYet /\ ret = NotYet /\ nextId = 1 /\ trace = <<>>
    /\ proc = <<>>

Unapplied == out.type = "pending"

ApplyParse ==
    /\ fn = "parse" /\ Unapplied
    /\ out' = parse_mcp_tool_name(arg)
    /\ UNCHANGED <<mode, calls, env, caller, pc, req, res, order, nfinished, outer, ret,
                   nextId, trace, proc, fn, arg>>

ApplyResolve ==
    /\ fn = "resolve" /\ Unapplied
    /\ out' = get_mcp_server_config(arg[1], arg[2])
    /\ UNCHANGED <<mode, calls, env, caller, pc, req, res, order, nfinished, outer, ret,
                   nextId, trace, proc, fn, arg>>

ApplyScan ==
    /\ fn = "scan" /\ Unapplied
    /\ out' = ParseResponse(arg)
    /\ UNCHANGED <<mode, calls, env, caller, pc, req, res, order, nfinished, outer, ret,
                   nextId, trace, proc, fn, arg>>

\* process.communicate has returned arg = (stdout, stderr).
ApplyCommunicate ==
    /\ fn = "communicate" /\ Unapplied
    /\ out' = AfterCommunicate(arg[1], arg[2])
    /\ trace' = StderrLog(arg[2])
    /\ UNCHANGED <<mode, calls, env, caller, pc, req, res, order, nfinished, outer, ret,
                   nextId, proc, fn, arg>>

UnitNext == ApplyParse \/ ApplyResolve \/ ApplyScan \/ ApplyCommunicate

SpecUnit == UnitInit /\ [][UnitNext]_vars

\* --------------------------------------- resolutions with edits in between
\* Successive calls resolve the servers calls[1], calls[2], ... one after the
\* other while the configuration files are edited at any time.  res holds the
\* outcomes so far and trace the environment each resolution was made in.
MaxResolutions == 3

EditContents ==
    { Absent, Document(<<"a">> :> E1), Document((<<"a">> :> E3) @@ (<<"b">> :> E2)) }

\* The edits are made to the file that is the configuration source.
EditEnvs ==
    { Environment("unset", h, Absent) : h \in EditContents }
    \cup { Environment(EnvPath, Document(<<"a">> :> E1), o) : o \in EditContents }

EditInit ==
    /\ mode = "resolve_sequence"
    /\ calls \in UNION { [1..n -> {<<"a">>, <<"b">>}] : n \in 1..MaxResolutions }
    /\ env \in EditEnvs
    /\ res = <<>> /\ trace = <<>>
    /\ caller = "idle" /\ pc = <<>> /\ req = <<>> /\ proc = <<>> /\ order = <<>>
    /\ nfinished = 0 /\ outer = NotYet /\ ret = NotYet /\ nextId = 1
    /\ fn = "none" /\ arg = <<>> /\ out = NotYet

\* The next call reads the configuration as it is now.
ResolveNext ==
    /\ Len(res) < Len(calls)
    /\ res' = Append(res, get_mcp_server_config(env, calls[Len(res) + 1]))
    /\ trace' = Append(trace, env)
    /\ UNCHANGED <<mode, calls, env, caller, pc, req, order, nfinished, outer, ret, nextId,
                   proc, fn, arg, out>>

\* Somebody rewrites, creates or deletes a configuration file.
EditConfig ==
    /\ \E e \in EditEnvs : e.var = env.var /\ e # env /\ env' = e
    /\ UNCHANGED <<mode, calls, caller, pc, req, res, order, nfinished, outer, ret, nextId,
                   trace, proc, fn, arg, out>>

EditNext == ResolveNext \/ EditConfig

SpecEdit == EditInit /\ [][EditNext]_vars

\* ------------------------------------- scripts/python/error_recovery.py
\* call_with_retry(tool_name, params, config).  The configuration is in arg,
\* the loop variable `attempt` in nfinished, last_error in outer; res holds
\* the outcomes of the attempts made so far and trace what the function has
\* done: [e |-> "attempt", v |-> attempt] and [e |-> "sleep", v |-> delay].
\* Delays are floats: FloatMax stands for the largest finite float, Inf for
\* what a product beyond it becomes.
FloatMax == 1000

Inf == FloatMax + 1

\* x ** k for floats; the value is beyond FloatMax when the power is out of
\* range, where Python raises OverflowError.
RECURSIVE FloatPow(_, _)
FloatPow(x, k) ==
    IF k = 0 THEN 1
    ELSE IF FloatPow(x, k - 1) > FloatMax THEN Inf
    ELSE IF FloatPow(x, k - 1) * x > FloatMax THEN Inf
    ELSE FloatPow(x, k - 1) * x

\* x * y for floats: a product out of range is inf, without an exception.
FloatMul(x, y) == IF x * y > FloatMax THEN Inf ELSE x * y

Min(x, y) == IF y < x THEN y ELSE x

\* min(initial_delay * (backoff_multiplier ** attempt), max_delay)
Delay(config, attempt) ==
    IF FloatPow(config.backoff_multiplier, attempt) > FloatMax
    THEN Raise("OverflowError", <<"Numerical result out of range">>)
    ELSE Return(Min(FloatMul(config.initial_delay,
                             FloatPow(config.backoff_multiplier, attempt)),
                    config.max_delay))

RetryConfig(n, initial, max, multiplier) ==
    [max_retries |-> n, initial_delay |-> initial, max_delay |-> max,
     backoff_multiplier |-> multiplier]

\* The configuration of fetch_data_with_recovery is among them.
RetryConfigs ==
    { RetryConfig(n, i, x, m) : n \in 0..MaxRetries, i \in {1, 3}, x \in {2, 10}, m \in {1, 2, 40} }

\* What one call_mcp_tool can end with: results and wrapped failures.
AttemptOutcomes == { WrapFailure(IdOk, ParseResponse(stdout)) : stdout \in MainStreams }

Event(e, v) == [e |-> e, v |-> v]

RetryInit ==
    /\ mode = "call_with_retry"
    /\ calls = <<[tool |-> IdOk, parameters |-> "p1"]>>
    /\ arg \in RetryConfigs
    /\ caller = "call"
    /\ nfinished = 0 /\ outer = NotYet /\ res = <<>> /\ trace = <<>> /\ ret = NotYet
    /\ env = NoEnv /\ pc = <<>> /\ req = <<>> /\ proc = <<>> /\ order = <<>>
    /\ nextId = 1 /\ fn = "none" /\ out = NotYet

\* The call: `for attempt in range(max_retries)` is entered and the first
\* attempt made, or the range is empty and `raise last_error` raises None.
RetryEnter ==
    /\ caller = "call"
    /\ IF arg.max_retries <= 0
       THEN /\ ret' = Raise("TypeError", <<"exceptions must derive from BaseException">>)
            /\ caller' = "raised"
            /\ UNCHANGED trace
       ELSE /\ trace' = Append(trace, Event("attempt", nfinished))
            /\ caller' = "in_call"
            /\ UNCHANGED ret
    /\ UNCHANGED <<mode, calls, env, pc, req, res, order, nfinished, outer, nextId, proc,
                   fn, arg, out>>

\* Variant: the first error is kept.
LastErrorFirst(last_error, error) == IF last_error = NotYet THEN error ELSE last_error

\* last_error = error
LastError(last_error, error) == error

\* `await call_mcp_tool(...)` resumes with outcome o: a result is returned;
\* a failure is remembered and, unless this was the last attempt, the delay is
\* computed and slept; after the last attempt last_error is raised.
AttemptDone ==
    /\ caller = "in_call"
    /\ \E o \in AttemptOutcomes :
         /\ res' = Append(res, o)
         /\ IF o.ok
            THEN /\ ret' = o /\ caller' = "returned"
                 /\ UNCHANGED <<outer, trace>>
            ELSE /\ outer' = LastError(outer, o)
                 /\ IF nfinished < arg.max_retries - 1
                    THEN IF Delay(arg, nfinished).ok
                         THEN /\ trace' = Append(trace, Event("sleep", Delay(arg, nfinished).val))
                              /\ caller' = "sleeping"
                              /\ UNCHANGED ret
                         ELSE /\ ret' = Delay(arg, nfinished)
                              /\ caller' = "raised"
                              /\ UNCHANGED trace
                    ELSE /\ ret' = outer'
                         /\ caller' = "raised"
                         /\ UNCHANGED trace
    /\ UNCHANGED <<mode, calls, env, pc, req, order, nfinished, nextId, proc, fn, arg, out>>

\* `await asyncio.sleep(delay)` resumes: the next attempt is made.
SleepDone ==
    /\ caller = "sleeping"
    /\ nfinished' = nfinished + 1
    /\ trace' = Append(trace, Event("attempt", nfinished'))
    /\ caller' = "in_call"
    /\ UNCHANGED <<mode, calls, env, pc, req, res, order, outer, ret, nextId, proc,
                   fn, arg, out>>

RetryNext == RetryEnter \/ AttemptDone \/ SleepDone

SpecRetry == RetryInit /\ [][RetryNext]_vars

\* fetch_data_with_recovery(data_id).  call_with_retry runs as above for the
\* primary service (its attempts are in res); fn is the strategy the function
\* is in, req its local variables `attempts` and `errors`, proc the tool
\* invocations it made itself, in order, and out what it returned.
FetchConfig == RetryConfig(3, 1, 10, 2)

\* What the cache tool can hand back: None, a dict without 'value', a dict
\* with an empty or a non-empty 'value', or a list.
Cached(t, value) == [t |-> t, value |-> value]

CachedValues ==
    { Cached("None", 0), Cached("dict", 0), Cached("dict", 7), Cached("list", 0) }

CacheOutcomes ==
    { o \in AttemptOutcomes : ~o.ok } \cup { Return(v) : v \in CachedValues }

Invocation(tool, o) == [tool |-> tool, outcome |-> o]

FetchResult(success, data, source, locals) ==
    Return([success |-> success, data |-> data, source |-> source,
            attempts |-> locals.attempts, errors |-> locals.errors])

FetchInit ==
    /\ mode = "fetch_data_with_recovery"
    /\ arg = FetchConfig
    /\ fn = "primary"
    /\ req = [attempts |-> 0, errors |-> <<>>]
    /\ proc = <<>> /\ out = NotYet
    /\ calls = <<>> /\ caller = "call"
    /\ nfinished = 0 /\ outer = NotYet /\ res = <<>> /\ trace = <<>> /\ ret = NotYet
    /\ env = NoEnv /\ pc = <<>> /\ order = <<>> /\ nextId = 1

\* call_with_retry is over: on a result `attempts += max_retries` and the
\* function returns; on an exception the error is noted, `attempts += 1`
\* and the secondary service is called.
PrimaryDone ==
    /\ fn = "primary" /\ caller \in {"returned", "raised"}
    /\ IF ret.ok
       THEN /\ req' = [req EXCEPT !.attempts = @ + arg.max_retries]
            /\ out' = FetchResult(TRUE, ret.val, "primary", req')
            /\ fn' = "done"
            /\ UNCHANGED proc
       ELSE /\ req' = [attempts |-> req.attempts + 1,
                       errors   |-> Append(req.errors, <<"Primary service", StrOf(ret)>>)]
            /\ proc' = Append(proc, Invocation("mcp__secondary__get_data", NotYet))
            /\ fn' = "secondary"
            /\ UNCHANGED out
    /\ UNCHANGED <<mode, calls, env, caller, pc, res, order, nfinished, outer, ret, nextId,
                   trace, arg>>

\* The secondary service answered or failed; on a failure the error is
\* noted, `attempts += 1` and the cache is asked.
SecondaryDone ==
    /\ fn = "secondary"
    /\ \E o \in AttemptOutcomes :
         IF o.ok
         THEN /\ proc' = [proc EXCEPT ![1].outcome = o]
              /\ out' = FetchResult(TRUE, o.val, "secondary", req)
              /\ fn' = "done"
              /\ UNCHANGED req
         ELSE /\ req' = [attempts |-> req.attempts + 1,
                         errors   |-> Append(req.errors, <<"Secondary service", StrOf(o)>>)]
              /\ proc' = Append([proc EXCEPT ![1].outcome = o],
                                Invocation("mcp__cache__get", NotYet))
              /\ fn' = "cache"
              /\ UNCHANGED out
    /\ UNCHANGED <<mode, calls, env, caller, pc, res, order, nfinished, outer, ret, nextId,
                   trace, arg>>

\* Variant: whatever the cache tool returns is taken as data.
CacheLookupAnyAnswer(o) ==
    IF ~o.ok THEN o ELSE Return(o.val.value)

\* The body of the third try block, given the outcome o of the cache tool:
\* `if cached and cached.get("value")` returns cached["value"]; a list has
\* no get; anything else raises Exception("No cached data available").
CacheLookup(o) ==
    IF ~o.ok THEN o
    ELSE IF o.val.t = "list" THEN Raise("AttributeError", <<"'list' object has no attribute 'get'">>)
    ELSE IF o.val.t = "dict" /\ o.val.value # 0 THEN Return(o.val.value)
    ELSE Raise("Exception", <<"No cached data available">>)

\* The cache tool answered or failed; without usable cached data the error
\* is noted and the default result returned.
CacheDone ==
    /\ fn = "cache"
    /\ \E o \in CacheOutcomes :
         /\ proc' = [proc EXCEPT ![2].outcome = o]
         /\ IF CacheLookup(o).ok
            THEN /\ out' = FetchResult(TRUE, CacheLookup(o).val, "cache", req)
                 /\ UNCHANGED req
            ELSE /\ req' = [req EXCEPT !.errors = Append(@, <<"Cache", StrOf(CacheLookup(o))>>)]
                 /\ out' = FetchResult(FALSE, NoVal, "default", req')
    /\ fn' = "done"
    /\ UNCHANGED <<mode, calls, env, caller, pc, res, order, nfinished, outer, ret, nextId,
                   trace, arg>>

FetchNext ==
    \/ RetryEnter
    \/ AttemptDone
    \/ SleepDone
    \/ PrimaryDone
    \/ SecondaryDone
    \/ CacheDone

SpecFetch == FetchInit /\ [][FetchNext]_vars

\* ------------------------------------- scripts/python/conditional_logic.py
\* cascading_fallback(item_id).  ret is what the metadata tool ended with,
\* arg the metadata the function goes by, calls the list `sources`, proc the
\* source tools invoked so far, fn the position and out the outcome.
Metadata(t, cached, source) == [t |-> t, cached |-> cached, source |-> source]

\* metadata = {'source': 'unknown', 'cached': False}
DefaultMetadata == Metadata("dict", FALSE, "unknown")

\* What the metadata tool can return: a dict (source may be absent: "none")
\* or None.
MetadataValues ==
    { Metadata("dict", c, src) : c \in BOOLEAN, src \in {"database", "api", "unknown", "other", "none"} }
    \cup { Metadata("None", FALSE, "none") }

MetadataOutcomes ==
    { o \in AttemptOutcomes : ~o.ok } \cup { Return(v) : v \in MetadataValues }

ToolOf(name) ==
    CASE name = "cache"    -> "mcp__cache__get"
      [] name = "database" -> "mcp__database__get"
      [] name = "api"      -> "mcp__api__fetch"
      [] name = "storage"  -> "mcp__storage__retrieve"

\* Variant: cold storage put in front.
SourcesStorageFirst(metadata) ==
    <<"storage">>
    \o (IF metadata.cached THEN <<"cache">> ELSE <<>>)
    \o (IF metadata.source = "database" THEN <<"database">> ELSE <<>>)
    \o (IF metadata.source \in {"api", "unknown"} THEN <<"api">> ELSE <<>>)

\* The list `sources` built from the metadata.
Sources(metadata) ==
    (IF metadata.cached THEN <<"cache">> ELSE <<>>)
    \o (IF metadata.source = "database" THEN <<"database">> ELSE <<>>)
    \o (IF metadata.source \in {"api", "unknown"} THEN <<"api">> ELSE <<>>)
    \o <<"storage">>

\* What a source tool can return: None, a dict without data, a dict with
\* data, or a list.
Answer(t, data) == [t |-> t, data |-> data]

SourceOutcomes ==
    { o \in AttemptOutcomes : ~o.ok }
    \cup { Return(v) : v \in { Answer("None", 0), Answer("dict", 0), Answer("dict", 5),
                               Answer("list", 0) } }

\* The try body of the loop for outcome o of the source tool:
\* `if result and result.get('data')` gives result['data']; a list has no
\* get (AttributeError, caught); otherwise the source was empty.
SourceLookup(o) ==
    IF ~o.ok THEN o
    ELSE IF o.val.t = "list" THEN Raise("AttributeError", <<"'list' object has no attribute 'get'">>)
    ELSE IF o.val.t = "dict" /\ o.val.data # 0 THEN Return(o.val.data)
    ELSE Raise("empty", <<"returned empty result">>)

CascadeResult(success, tool, data) ==
    Return([success |-> success, path |-> "cascading-fallback", tool |-> tool, data |-> data])

CascadeInit ==
    /\ mode = "cascading_fallback"
    /\ fn = "metadata"
    /\ arg = <<>> /\ calls = <<>> /\ proc = <<>> /\ out = NotYet /\ ret = NotYet
    /\ nfinished = 0
    /\ caller = "idle" /\ outer = NotYet /\ res = <<>> /\ trace = <<>>
    /\ env = NoEnv /\ pc = <<>> /\ req = <<>> /\ order = <<>> /\ nextId = 1

\* The metadata tool answered or failed (then the defaults are used); the
\* sources are chosen and the first one is called.  metadata.get on None is
\* outside any try block.
MetadataDone ==
    /\ fn = "metadata"
    /\ \E o \in MetadataOutcomes :
         /\ ret' = o
         /\ IF o.ok /\ o.val.t = "None"
            THEN /\ out' = Raise("AttributeError", <<"'NoneType' object has no attribute 'get'">>)
                 /\ fn' = "done"
                 /\ UNCHANGED <<arg, calls, proc, nfinished>>
            ELSE /\ arg' = IF o.ok THEN o.val ELSE DefaultMetadata
                 /\ calls' = Sources(arg')
                 /\ nfinished' = 1
                 /\ proc' = <<Invocation(ToolOf(calls'[1]), NotYet)>>
                 /\ fn' = "source"
                 /\ UNCHANGED out
    /\ UNCHANGED <<mode, env, caller, pc, req, res, order, outer, nextId, trace>>

\* The source tool of the current iteration answered or failed: its data
\* are returned, or the next source is called, or all are exhausted.
SourceDone ==
    /\ fn = "source"
    /\ \E o \in SourceOutcomes :
         IF SourceLookup(o).ok
         THEN /\ proc' = [proc EXCEPT ![nfinished].outcome = o]
              /\ out' = CascadeResult(TRUE, ToolOf(calls[nfinished]), SourceLookup(o).val)
              /\ fn' = "done"
              /\ UNCHANGED nfinished
         ELSE IF nfinished < Len(calls)
         THEN /\ proc' = Append([proc EXCEPT ![nfinished].outcome = o],
                                Invocation(ToolOf(calls[nfinished + 1]), NotYet))
              /\ nfinished' = nfinished + 1
              /\ UNCHANGED <<out, fn>>
         ELSE /\ proc' = [proc EXCEPT ![nfinished].outcome = o]
              /\ out' = CascadeResult(FALSE, "none", NoVal)
              /\ fn' = "done"
              /\ UNCHANGED nfinished
    /\ UNCHANGED <<mode, calls, env, caller, pc, req, res, order, outer, ret, nextId,
                   trace, arg>>

CascadeNext == MetadataDone \/ SourceDone

SpecCascade == CascadeInit /\ [][CascadeNext]_vars

\* ------------------------------------- scripts/python/multi_tool_workflow.py
\* multi_tool_workflow().  fn is the tool call the function is waiting for,
\* req its local variables, proc the tools invoked so far and out what it
\* returned.  A record of the query result is "good", "invalid" (it is
\* transformed and then filtered out by the validation) or "broken" (it
\* lacks a field the transformation subscripts).
RecordKinds == {"good", "invalid", "broken"}

\* raw_data: a list of records, or None.
RawData == { [t |-> "list", records |-> r] : r \in SeqsUpTo(RecordKinds, MaxRecords) }
           \cup { [t |-> "None", records |-> <<>>] }

QueryOutcomes == { o \in AttemptOutcomes : ~o.ok } \cup { Return(v) : v \in RawData }

\* store_result: a dict with 'inserted', a dict without it, or None.
StoreResults ==
    { [t |-> "dict", has |-> TRUE, inserted |-> n] : n \in {0, MaxRecords} }
    \cup { [t |-> "dict", has |-> FALSE, inserted |-> 0], [t |-> "None", has |-> FALSE, inserted |-> 0] }

StoreOutcomes == { o \in AttemptOutcomes : ~o.ok } \cup { Return(v) : v \in StoreResults }

Locals(steps, raw, validated, stored) ==
    [steps_completed |-> steps, raw_data |-> raw, validated |-> validated, stored |-> stored]

\* The except block: {'success': False, 'steps_completed': ..., 'error': ...}
WorkflowFailed(steps, error) ==
    Return([success |-> FALSE, steps_completed |-> steps, total_steps |-> 5,
            error |-> StrOf(error)])

\* The return at the end of the try block.
WorkflowSucceeded(steps) ==
    Return([success |-> TRUE, steps_completed |-> steps, total_steps |-> 5, error |-> <<>>])

\* Variant: the transformation is not counted as a step.
LocalStepsUncounted(steps, raw) ==
    IF raw.t # "list"
    THEN [steps |-> steps + 1, error |-> <<Raise("TypeError", <<"object of type 'NoneType' has no len()">>)>>]
    ELSE IF \E k \in 1..Len(raw.records) : raw.records[k] = "broken"
    THEN [steps |-> steps + 1, error |-> <<Raise("KeyError", <<"email">>)>>]
    ELSE [steps |-> steps + 2, error |-> <<>>]

\* Lines 45 to 78, from the return of the query to the call of bulk_insert:
\* step 1 is counted, len(raw_data) printed, the records transformed (step
\* 2) and validated (step 3).  Gives the step count reached and the
\* exception raised on the way, if any.
LocalSteps(steps, raw) ==
    IF raw.t # "list"
    THEN [steps |-> steps + 1, error |-> <<Raise("TypeError", <<"object of type 'NoneType' has no len()">>)>>]
    ELSE IF \E k \in 1..Len(raw.records) : raw.records[k] = "broken"
    THEN [steps |-> steps + 1, error |-> <<Raise("KeyError", <<"email">>)>>]
    ELSE [steps |-> steps + 3, error |-> <<>>]

Validated(raw) == SelectSeq(raw.records, LAMBDA r : r = "good")

WorkflowInit ==
    /\ mode = "multi_tool_workflow"
    /\ fn = "query"
    /\ req = Locals(0, <<>>, <<>>, <<>>)
    /\ proc = <<Invocation("mcp__database__query", NotYet)>>
    /\ out = NotYet
    /\ arg = <<>> /\ calls = <<>> /\ ret = NotYet /\ nfinished = 0
    /\ caller = "idle" /\ outer = NotYet /\ res = <<>> /\ trace = <<>>
    /\ env = NoEnv /\ pc = <<>> /\ order = <<>> /\ nextId = 1

\* The query returned or failed; on a result steps 1 to 3 run and
\* bulk_insert is called with the validated records.
QueryDone ==
    /\ fn = "query"
    /\ \E o \in QueryOutcomes :
         IF ~o.ok
         THEN /\ proc' = [proc EXCEPT ![1].outcome = o]
              /\ out' = WorkflowFailed(req.steps_completed, o)
              /\ fn' = "done"
              /\ UNCHANGED req
         ELSE LET local == LocalSteps(req.steps_completed, o.val)
              IN  IF local.error # <<>>
                  THEN /\ proc' = [proc EXCEPT ![1].outcome = o]
                       /\ req' = Locals(local.steps, o.val, <<>>, <<>>)
                       /\ out' = WorkflowFailed(local.steps, local.error[1])
                       /\ fn' = "done"
                  ELSE /\ proc' = Append([proc EXCEPT ![1].outcome = o],
                                         Invocation("mcp__database__bulk_insert", NotYet))
                       /\ req' = Locals(local.steps, o.val, Validated(o.val), <<>>)
                       /\ fn' = "store"
                       /\ UNCHANGED out
    /\ UNCHANGED <<mode, calls, env, caller, pc, res, order, nfinished, outer, ret, nextId,
                   trace, arg>>

\* bulk_insert returned or failed; on a result step 4 is counted,
\* store_result['inserted'] read, the report built (with a division by
\* len(raw_data)) and write_file called.
StoreDone ==
    /\ fn = "store"
    /\ \E o \in StoreOutcomes :
         IF ~o.ok
         THEN /\ proc' = [proc EXCEPT ![2].outcome = o]
              /\ out' = WorkflowFailed(req.steps_completed, o)
              /\ fn' = "done"
              /\ UNCHANGED req
         ELSE IF ~o.val.has
         THEN /\ proc' = [proc EXCEPT ![2].outcome = o]
              /\ req' = [req EXCEPT !.steps_completed = @ + 1]
              /\ out' = WorkflowFailed(req'.steps_completed,
                                       IF o.val.t = "dict"
                                       THEN Raise("KeyError", <<"inserted">>)
                                       ELSE Raise("TypeError", <<"'NoneType' object is not subscriptable">>))
              /\ fn' = "done"
         ELSE IF Len(req.raw_data.records) = 0
         THEN /\ proc' = [proc EXCEPT ![2].outcome = o]
              /\ req' = [req EXCEPT !.steps_completed = @ + 1, !.stored = <<o.val.inserted>>]
              /\ out' = WorkflowFailed(req'.steps_completed,
                                       Raise("ZeroDivisionError", <<"division by zero">>))
              /\ fn' = "done"
         ELSE /\ proc' = Append([proc EXCEPT ![2].outcome = o],
                                Invocation("mcp__filesystem__write_file", NotYet))
              /\ req' = [req EXCEPT !.steps_completed = @ + 1, !.stored = <<o.val.inserted>>]
              /\ fn' = "report"
              /\ UNCHANGED out
    /\ UNCHANGED <<mode, calls, env, caller, pc, res, order, nfinished, outer, ret, nextId,
                   trace, arg>>

\* write_file returned or failed; on a result step 5 is counted and the
\* success record returned.
ReportDone ==
    /\ fn = "report"
    /\ \E o \in AttemptOutcomes :
         /\ proc' = [proc EXCEPT ![3].outcome = o]
         /\ IF ~o.ok
            THEN /\ out' = WorkflowFailed(req.steps_completed, o)
                 /\ UNCHANGED req
            ELSE /\ req' = [req EXCEPT !.steps_completed = @ + 1]
                 /\ out' = WorkflowSucceeded(req'.steps_completed)
    /\ fn' = "done"
    /\ UNCHANGED <<mode, calls, env, caller, pc, res, order, nfinished, outer, ret, nextId,
                   trace, arg>>

WorkflowNext == QueryDone \/ StoreDone \/ ReportDone

SpecWorkflow == WorkflowInit /\ [][WorkflowNext]_vars

\* ------------------------------------------- one server process, in detail
\* call_mcp_tool_via_stdio from the launch of the server process to its
\* outcome, with the server's side spelled out: the process writes records
\* to its output one by one, each with an 'id' of its own choosing or with
\* none, and exits with a status.  req is the request sent (its id is the
\* fresh uuid4), proc[1] the process, fn its stage, out the outcome.
RequestIds == {1, 2}

\* 0 stands for a record without an 'id'.
RecordIds == {0} \cup RequestIds

ExitStatuses == {0, 1}

\* A line of output with the 'id' it carries.
WireLine(l, id) == [t |-> l.t, has |-> l.has, error |-> l.error, result |-> l.result, id |-> id]

WireLines ==
    {WireLine(BadLine, 0)}
    \cup { WireLine(l, id) : l \in {Obj({}, 0, 0), Obj({"result"}, 0, 1), Obj({"error"}, 2, 0)},
                             id \in RecordIds }

ServerProcess(request) ==
    [state |-> "running", argv |-> <<"npx">>, stdin |-> <<request>>, stdout |-> <<>>,
     stderr |-> "", returncode |-> 0]

\* Variant: only the records that carry the id of the request are scanned.
ResponsesMatchingId(p) ==
    SelectSeq(p.stdout, LAMBDA l : l.t # "obj" \/ l.id = p.stdin[1].id)

\* `for line in lines`: the records the scan goes through, all of them.
Responses(p) == p.stdout

\* Variant: a non-zero exit status is a failure.
TransportResultCheckStatus(p) ==
    IF p.returncode # 0 THEN Raise("MCPError", <<"MCP server exited with an error">>)
    ELSE AfterCommunicate(Responses(p), p.stderr)

\* Lines 146 to 174 on an exited process: stdout and stderr are taken from
\* communicate(), process.returncode is not read.
TransportResult(p) == AfterCommunicate(Responses(p), p.stderr)

ServerInit ==
    /\ mode = "call_mcp_tool_via_stdio"
    /\ fn = "running"
    /\ \E id \in RequestIds :
         /\ req = Request(id, "query", "p1")
         /\ proc = <<ServerProcess(req)>>
    /\ out = NotYet
    /\ arg = <<>> /\ calls = <<>> /\ ret = NotYet /\ nfinished = 0
    /\ caller = "idle" /\ outer = NotYet /\ res = <<>> /\ trace = <<>>
    /\ env = NoEnv /\ pc = <<>> /\ order = <<>> /\ nextId = 1

\* The server writes one more line to its output.
ServerWrite ==
    /\ fn = "running"
    /\ Len(proc[1].stdout) < MaxLines - 1
    /\ \E l \in WireLines : proc' = [proc EXCEPT ![1].stdout = Append(@, l)]
    /\ UNCHANGED <<mode, calls, env, caller, pc, req, res, order, nfinished, outer, ret,
                   nextId, trace, fn, arg, out>>

\* The server exits, with a status and possibly output on its stderr.
ServerExit ==
    /\ fn = "running"
    /\ \E status \in ExitStatuses, stderr \in {"", "warning: slow"} :
         proc' = [proc EXCEPT ![1].state = "exited", ![1].returncode = status,
                              ![1].stderr = stderr]
    /\ fn' = "exited"
    /\ UNCHANGED <<mode, calls, env, caller, pc, req, res, order, nfinished, outer, ret,
                   nextId, trace, arg, out>>

\* process.communicate() returns and the output is scanned.
TransportRead ==
    /\ fn = "exited"
    /\ out' = TransportResult(proc[1])
    /\ trace' = StderrLog(proc[1].stderr)
    /\ fn' = "done"
    /\ UNCHANGED <<mode, calls, env, caller, pc, req, res, order, nfinished, outer, ret,
                   nextId, proc, arg>>

ServerNext == ServerWrite \/ ServerExit \/ TransportRead

SpecServer == ServerInit /\ [][ServerNext]_vars

\* ================================================================== claims
Resumed(m) == mode = m /\ caller = "resumed"

Applied(f) == fn = f /\ ~Unapplied

Failed(i) == pc[i] = "done" /\ ~res[i].ok

Succeeded(i) == pc[i] = "done" /\ res[i].ok

\* C1: when call_mcp_tools_parallel_safe has returned, for a batch of any
\* length N >= 0, any mixture of succeeding and failing calls and any
\* completion order, the returned list has exactly N outcomes and the one at
\* position i is the outcome of the coroutine that ran calls[i]; a call with
\* a malformed identifier has its failure, naming that identifier, at its own
\* position.
C1_OutcomesInInputOrder ==
    Resumed("call_mcp_tools_parallel_safe") =>
        /\ ret.ok
        /\ Len(ret.val) = Len(calls)
        /\ \A i \in 1..Len(calls) :
             /\ pc[i] = "done"
             /\ ret.val[i] = SafeOutcome(res[i])
             /\ ~parse_mcp_tool_name(calls[i].tool).ok =>
                   /\ ~ret.val[i].success
                   /\ ret.val[i].error = <<"Invalid MCP tool name format", calls[i].tool>>

\* C1 witness: a batch of two, the second call finished first, one outcome a
\* success and the other a failure.
C1_Witness ==
    /\ Resumed("call_mcp_tools_parallel_safe")
    /\ Len(calls) = 2 /\ order = <<2, 1>>
    /\ ret.val[1].success /\ ~ret.val[2].success

\* C2: in call_mcp_tools_parallel, once any call of the batch has failed the
\* caller never receives a result list: it is still suspended or it has been
\* resumed with one failure, which is the failure of one of the calls.
C2_FailureGivesNoList ==
    (mode = "call_mcp_tools_parallel" /\ \E i \in 1..Len(calls) : Failed(i)) =>
        /\ ~ret.ok
        /\ ~outer.ok
        /\ caller = "resumed" => \E j \in 1..Len(calls) : Failed(j) /\ ret = res[j]

\* C2 witness: the caller got the failure although another call succeeded.
C2_Witness ==
    /\ Resumed("call_mcp_tools_parallel")
    /\ ~ret.ok
    /\ \E i \in 1..Len(calls) : Succeeded(i)

\* C3: every failure of a single call_mcp_tool reaches its caller as the
\* wrapped error "Failed to call MCP tool <identifier>: <cause>".
C3_EveryFailureWrapped ==
    (Resumed("call_mcp_tool") /\ ~ret.ok) =>
        /\ ret.type = "MCPError"
        /\ ret.msg[1] = "Failed to call MCP tool"
        /\ ret.msg[2] = calls[1].tool
        /\ ret.cause # <<>>

\* ---- the response scan
\* A record that carries an 'error' or a 'result' field.
IsMatch(l) == l.t = "obj" /\ l.has # {}

\* A line that does not decode.
Undecodable(l) == l.t \in {"bad", "blank"}

Matches(s) == { i \in 1..Len(s) : IsMatch(s[i]) }

FirstMatch(s) == CHOOSE i \in Matches(s) : \A j \in Matches(s) : i <= j

ToolError(payload) == Raise("MCPError", <<"MCP tool error", <<"json", payload>>>>)

NoResponse == Raise("MCPError", <<"No valid MCP response received">>)

IsToolError(o) == ~o.ok /\ o.type = "MCPError" /\ o.msg[1] = "MCP tool error"

\* What the first record with an 'error' or 'result' field dictates.
FirstMatchOutcome(s) ==
    IF Matches(s) = {} THEN NoResponse
    ELSE IF "error" \in s[FirstMatch(s)].has THEN ToolError(s[FirstMatch(s)].error)
    ELSE Return(s[FirstMatch(s)].result)

\* C4: the first record in stream order that has an 'error' or 'result' field
\* decides the call: a returned result or a ToolError is always the one that
\* record dictates (ToolError with its payload if it has 'error', else its
\* 'result'), whatever records follow it; and on a stream of records and
\* undecodable lines the outcome is exactly that, NoResponse if there is none.
C4_FirstMatchWins ==
    Applied("scan") =>
        /\ (out.ok \/ IsToolError(out)) => Matches(arg) # {} /\ out = FirstMatchOutcome(arg)
        /\ (\A i \in 1..Len(arg) : Undecodable(arg[i]) \/ arg[i].t = "obj")
              => out = FirstMatchOutcome(arg)

\* C4 witness: a result record followed by an error record yields the result.
C4_Witness ==
    /\ Applied("scan")
    /\ Len(arg) = 2 /\ arg[1].t = "obj" /\ arg[1].has = {"result"}
    /\ arg[2].t = "obj" /\ arg[2].has = {"error"}
    /\ out = Return(arg[1].result)

\* C5: a record with both an 'error' and a 'result' field that the scan gets to
\* makes the call fail with ToolError carrying the error payload; the value a
\* call returns is never the result of a record that also has 'error'.
C5_ErrorBeforeResult ==
    Applied("scan") =>
        /\ \A k \in 1..Len(arg) :
             (/\ arg[k].t = "obj" /\ arg[k].has = {"error", "result"}
              /\ \A j \in 1..(k - 1) : Undecodable(arg[j]) \/ (arg[j].t = "obj" /\ arg[j].has = {}))
             => out = ToolError(arg[k].error)
        /\ out.ok => "error" \notin arg[FirstMatch(arg)].has

\* C5 witness: the stream whose only record has both fields.
C5_Witness ==
    /\ Applied("scan")
    /\ Len(arg) = 1 /\ arg[1].t = "obj" /\ arg[1].has = {"error", "result"}
    /\ IsToolError(out)

\* C6: lines that do not decode are skipped: any number of them followed by a
\* record with a 'result' field and no 'error' field yields that result, and
\* a stream that is empty or holds only such lines ends in NoResponse.
C6_UndecodableSkipped ==
    Applied("scan") =>
        /\ \A k \in 1..Len(arg) :
             (/\ arg[k].t = "obj" /\ arg[k].has = {"result"}
              /\ \A j \in 1..(k - 1) : Undecodable(arg[j]))
             => out = Return(arg[k].result)
        /\ (\A j \in 1..Len(arg) : Undecodable(arg[j])) => out = NoResponse

\* C6 witness: two undecodable lines, then a result record.
C6_Witness ==
    /\ Applied("scan")
    /\ Len(arg) = 3 /\ arg[1].t = "bad" /\ arg[2].t = "bad"
    /\ arg[3].t = "obj" /\ arg[3].has = {"result"}
    /\ out.ok

\* C7: every line that decodes to something other than a record with an
\* 'error' or 'result' field is ignored, so the outcome of any stream is the
\* one its first record with such a field dictates, NoResponse without one.
C7_OtherValuesIgnored ==
    Applied("scan") => out = FirstMatchOutcome(arg)

\* ---- the identifier parser
NonEmptySegments(parts) == \A k \in 1..Len(parts) : parts[k] # <<>>

InvalidIdentifier(o, tool_name) ==
    ~o.ok /\ o.type = "ValueError" /\ o.msg = <<"Invalid MCP tool name format", tool_name>>

\* C8: parse_mcp_tool_name fails with InvalidIdentifier for every string that
\* does not split on '__' into exactly three non-empty segments, the first
\* being 'mcp'.
C8_RejectsAllMalformed ==
    Applied("parse") =>
        (~(Len(Split(arg)) = 3 /\ NonEmptySegments(Split(arg)) /\ Split(arg)[1] = mcp)
            => InvalidIdentifier(out, arg))

HasDelimiter(w) == \E k \in 1..(Len(w) - 1) : w[k] = "_" /\ w[k + 1] = "_"

Delimiter == <<"_", "_">>

Identifier(server, tool) == mcp \o Delimiter \o server \o Delimiter \o tool

\* The ways to read s as 'mcp__<server>__<tool>' with non-empty server and
\* tool that contain no '__'.
Readings(s) ==
    { st \in { <<SubSeq(s, 6, k), SubSeq(s, k + 3, Len(s))>> : k \in 6..(Len(s) - 3) } :
        /\ s = Identifier(st[1], st[2])
        /\ ~HasDelimiter(st[1]) /\ ~HasDelimiter(st[2]) }

WellFormed(e) ==
    e.files[ConfigPath(e)].kind = "doc" /\ e.files[ConfigPath(e)].hasKey

ServerNotConfigured(o, server_name) ==
    ~o.ok /\ o.type = "MCPError" /\ o.msg[1] = "MCP server not found in config"
          /\ o.msg[2] = server_name

\* C10: against a well-formed configuration document, the resolver fails
\* with ServerNotConfigured when the server name is not a key of mcpServers
\* and otherwise returns that server's entry unchanged: the same command,
\* the same args in the same order, args still absent if it was absent.
C10_ResolveWellFormed ==
    (Applied("resolve") /\ WellFormed(arg[1])) =>
        LET servers == arg[1].files[ConfigPath(arg[1])].servers
        IN  IF arg[2] \in DOMAIN servers
            THEN out.ok /\ out.val = servers[arg[2]]
            ELSE ServerNotConfigured(out, arg[2])

\* C10 witness: a configured server whose entry has two args is resolved from
\* the file that MCP_CONFIG_PATH names.
C10_Witness ==
    /\ Applied("resolve")
    /\ arg[1].var = EnvPath /\ WellFormed(arg[1])
    /\ out.ok /\ out.val = E2

ConfigNotFound(o) == ~o.ok /\ o.type = "FileNotFoundError"

ConfigMalformed(o) == ~o.ok /\ o.type = "MCPError" /\ o.msg[1] = "Invalid JSON in MCP config"

ServerSectionMissing(o) ==
    ~o.ok /\ o.type = "MCPError" /\ o.msg[1] = "No 'mcpServers' key in config"

\* The file the resolver looks at: the one MCP_CONFIG_PATH names, the one
\* under the home directory when the variable is unset or empty.
SourceOf(e) == IF e.var = EnvPath THEN e.files[EnvPath] ELSE e.files[HomePath]

Last(w) == w[Len(w)]

Has(w, e) == \E k \in 1..Len(w) : w[k] = e

IsPrefix(u, w) == Len(u) <= Len(w) /\ \A k \in 1..Len(u) : u[k] = w[k]

AllDone == \A i \in 1..Len(calls) : pc[i] = "done"

\* What the transport of call i ended with, taken from the wrapped failure.
TransportOutcome(i) == res[i].cause[1]

\* C12: in the list call_mcp_tools_parallel_safe returns, a call that
\* succeeded has {success: true, data: its result} and a call that failed in
\* any stage (parse, resolve, launch, tool error, no response) has
\* {success: false, error: its message}; a failed call is never reported as a
\* success and gets no data.
C12_OutcomeShape ==
    Resumed("call_mcp_tools_parallel_safe") =>
        \A i \in 1..Len(calls) :
            /\ ret.val[i].success =>
                 /\ Last(trace[i]) = "decode"
                 /\ res[i].ok /\ ret.val[i].data = res[i].val
            /\ ~ret.val[i].success =>
                 /\ ~res[i].ok
                 /\ ret.val[i].error = res[i].msg /\ ret.val[i].error # <<>>
                 /\ ret.val[i].data = NoVal
            /\ (\/ ~parse_mcp_tool_name(calls[i].tool).ok
                \/ Last(trace[i]) \in {"read_config", "launch_failed"}
                \/ ~res[i].ok) => ~ret.val[i].success

\* C12 witness: of two calls one returned a value and the other got an error
\* record from its server.
C12_Witness ==
    /\ Resumed("call_mcp_tools_parallel_safe")
    /\ Len(calls) = 2
    /\ ret.val[1].success /\ ret.val[1].data = 2
    /\ ~ret.val[2].success
    /\ res[2].cause # <<>> /\ IsToolError(TransportOutcome(2))

\* C13: call_mcp_tools_parallel_safe never fails: neither the future it
\* awaits nor the caller ever holds an exception, whatever the calls do.
C13_SafeNeverRaises ==
    mode = "call_mcp_tools_parallel_safe" =>
        /\ outer.type \in {"pending", "none"}
        /\ ret.type \in {"pending", "none"}
        /\ caller = "resumed" => ret.type = "none"

\* C13 witness: it returned for a batch of a malformed identifier and a
\* server that is not configured.
C13_Witness ==
    /\ Resumed("call_mcp_tools_parallel_safe")
    /\ Len(calls) = 2
    /\ res[1].type = "ValueError"
    /\ ServerNotConfigured(res[2], <<"b">>)

\* C14 as stated: call_mcp_tools_parallel never resumes its caller, with a
\* result or with a failure, while a constituent call is still in flight.
C14_ResumedOnlyWhenAllDone ==
    Resumed("call_mcp_tools_parallel") => AllDone

\* C14 amended: the caller is resumed with a result list only when all N
\* calls have completed; it is resumed with a failure as soon as one call has
\* failed, whether or not the others are still in flight.
C14_ResultOnlyWhenAllDone ==
    mode = "call_mcp_tools_parallel" =>
        /\ (outer.ok \/ ret.ok) => AllDone /\ nfinished = Len(calls)
        /\ (~outer.ok /\ outer.type # "pending") => \E i \in 1..Len(calls) : Failed(i)
        /\ (\E i \in 1..Len(calls) : Failed(i)) => outer.type # "pending"

\* C14 witness: the caller has its failure while the other call is running.
C14_Witness ==
    /\ Resumed("call_mcp_tools_parallel")
    /\ ~ret.ok
    /\ \E i \in 1..Len(calls) : pc[i] = "running"

\* C15: call_mcp_tools_parallel_safe has no result, and its caller is not
\* resumed, before every one of the N calls has reached its outcome.
C15_SafeWaitsForAll ==
    (mode = "call_mcp_tools_parallel_safe" /\ (outer.type # "pending" \/ caller = "resumed")) =>
        /\ AllDone
        /\ nfinished = Len(calls)
        /\ \A i \in 1..Len(calls) : res[i].type # "pending"

\* C15 witness: it returned after both server processes had exited, the
\* first call failing before the second was done.
C15_Witness ==
    /\ Resumed("call_mcp_tools_parallel_safe")
    /\ Len(calls) = 2 /\ order = <<1, 2>>
    /\ ~res[1].ok
    /\ Last(trace[1]) = "decode" /\ Last(trace[2]) = "decode"

\* The call that failed first in time.
FirstFailed ==
    order[CHOOSE k \in 1..Len(order) :
            /\ ~res[order[k]].ok
            /\ \A j \in 1..(k - 1) : res[order[j]].ok]

\* C16: the failure call_mcp_tools_parallel delivers is that of the call that
\* failed first in time, whatever its position in the list and whatever
\* fails after it.
C16_FirstFailureInTime ==
    (mode = "call_mcp_tools_parallel" /\ ~outer.ok /\ outer.type # "pending") =>
        /\ outer = res[FirstFailed]
        /\ caller = "resumed" => ret = res[FirstFailed]

\* C16 witness: both calls failed, the second one first, and the caller has
\* the failure of the second.
C16_Witness ==
    /\ Resumed("call_mcp_tools_parallel")
    /\ Len(calls) = 2 /\ order = <<2, 1>>
    /\ res[2].type = "ValueError" /\ res[1].type = "MCPError"
    /\ ret = res[2]

\* C17: when all calls of a call_mcp_tools_parallel batch succeed, the list
\* has one result per input and the result at position i is that of call i,
\* in every completion order.
C17_ResultsInInputOrder ==
    (Resumed("call_mcp_tools_parallel") /\ ret.ok) =>
        /\ Len(ret.val) = Len(calls)
        /\ \A i \in 1..Len(calls) :
             /\ res[i].ok /\ Last(trace[i]) = "decode"
             /\ ret.val[i].ok /\ ret.val[i].val = res[i].val

\* C17 witness: two calls with different results, the second finished first.
C17_Witness ==
    /\ Resumed("call_mcp_tools_parallel")
    /\ ret.ok /\ Len(calls) = 2 /\ order = <<2, 1>>
    /\ ret.val[1].val = 1 /\ ret.val[2].val = 2

Stages(w) == SelectSeq(w, LAMBDA e : e \in {"parse", "read_config", "spawn"})

\* C18: one call_mcp_tool runs parse, resolve, transport in this order and
\* stops at the first failure: when parsing fails the configuration is not
\* read, and when parsing or resolution fails no server command is started
\* and the call is over.
C18_StagesInOrder ==
    \A i \in 1..Len(calls) :
        LET parsed == parse_mcp_tool_name(calls[i].tool)
        IN  /\ IsPrefix(Stages(trace[i]), <<"parse", "read_config", "spawn">>)
            /\ ~parsed.ok =>
                 /\ ~Has(trace[i], "read_config") /\ ~Has(trace[i], "spawn")
                 /\ Has(trace[i], "parse") => pc[i] = "done" /\ res[i].type = "ValueError"
            /\ (parsed.ok /\ ~get_mcp_server_config(env, parsed.val[1]).ok) =>
                 /\ ~Has(trace[i], "spawn") /\ ~Has(trace[i], "launched")
                 /\ Has(trace[i], "read_config") => pc[i] = "done" /\ ~res[i].ok

\* C18 witness: a single call whose server is not configured ended after
\* reading the configuration.
C18_Witness ==
    /\ Resumed("call_mcp_tool")
    /\ trace[1] = <<"parse", "read_config">>
    /\ ServerNotConfigured(ret, <<"b">>)

TransportEvents == {"launched", "write_request", "close_stdin", "exit", "decode"}

\* C19: within one transport invocation the process is launched, the one
\* request line is written, the input is closed, the process exits and then
\* the output is decoded, in this order and each at most once.
C19_OneRequestPerProcess ==
    \A i \in 1..Len(calls) :
        /\ IsPrefix(SelectSeq(trace[i], LAMBDA e : e \in TransportEvents),
                    <<"launched", "write_request", "close_stdin", "exit", "decode">>)
        /\ Cardinality({ k \in 1..Len(trace[i]) : trace[i][k] = "write_request" }) <= 1
        /\ Has(trace[i], "decode") => pc[i] = "done"

\* C19 witness: a call that went through all five steps.
C19_Witness ==
    \E i \in 1..Len(calls) :
        /\ pc[i] = "done"
        /\ SelectSeq(trace[i], LAMBDA e : e \in TransportEvents)
              = <<"launched", "write_request", "close_stdin", "exit", "decode">>

ServerLaunchFailed(o) ==
    ~o.ok /\ o.type = "MCPError" /\ o.msg[1] = "MCP server command not found"

\* C20: whenever the server command cannot be started, for any reason, the
\* transport fails with ServerLaunchFailed and no request is written.
C20_LaunchFailureUniform ==
    \A i \in 1..Len(calls) :
        Has(trace[i], "launch_failed") =>
            /\ pc[i] = "done"
            /\ ServerLaunchFailed(TransportOutcome(i))
            /\ ~Has(trace[i], "write_request")

\* ---- the diagnostic stream
\* C21: the outcome of a transport invocation depends only on the process's
\* output stream: it is what the scan of that stream gives, and every
\* content of the diagnostic stream, empty or not, gives the same outcome;
\* the diagnostic content only goes to the log.
C21_StderrIrrelevant ==
    Applied("communicate") =>
        /\ out = ParseResponse(arg[1])
        /\ \A stderr \in Diagnostics : AfterCommunicate(arg[1], stderr) = out
        /\ (trace = <<>>) = (arg[2] = "")

\* C21 witness: a result is returned although the server wrote to its
\* diagnostic stream, and what it wrote was logged.
C21_Witness ==
    /\ Applied("communicate")
    /\ arg[2] # "" /\ trace # <<>>
    /\ Len(arg[1]) = 1 /\ arg[1][1].t = "obj" /\ arg[1][1].has = {"result"}
    /\ out.ok

\* ---- processes and requests
Count(w, e) == Cardinality({ k \in 1..Len(w) : w[k] = e })

\* C22: the core never retries: in every state one call_mcp_tool has started
\* the server command at most once, has at most one process and has written
\* at most one request, and once it has failed (launch failure, error reply,
\* no usable record) it is over, with that one attempt behind it.
C22_NeverRetries ==
    \A i \in 1..Len(calls) :
        /\ Count(trace[i], "spawn") <= 1
        /\ Count(trace[i], "launched") + Count(trace[i], "launch_failed") <= Count(trace[i], "spawn")
        /\ Count(trace[i], "write_request") <= Count(trace[i], "launched")
        /\ Len(proc[i].stdin) <= 1
        /\ (proc[i].state # "none") = Has(trace[i], "launched")
        /\ Failed(i) => pc[i] = "done" /\ Count(trace[i], "parse") = 1

\* C22 witness: single calls that failed after their one attempt: at the
\* launch, with an error reply, and without a usable record.
C22_Witness ==
    /\ Resumed("call_mcp_tool") /\ ~ret.ok /\ ret.cause # <<>>
    /\ Count(trace[1], "spawn") = 1
    /\ IsToolError(TransportOutcome(1))

\* ---- configuration edits between calls
\* C23: the configuration is read again on every call: each resolution gives
\* what the configuration source held at the time of that call (a missing
\* source ConfigNotFound, a listed server its entry, an unlisted server
\* ServerNotConfigured), whatever it held at earlier calls.
C23_ReadOnEveryCall ==
    mode = "resolve_sequence" =>
        \A k \in 1..Len(res) :
            LET source == SourceOf(trace[k])
            IN  IF source.kind = "absent" THEN ConfigNotFound(res[k])
                ELSE IF calls[k] \in DOMAIN source.servers
                THEN res[k].ok /\ res[k].val = source.servers[calls[k]]
                ELSE ServerNotConfigured(res[k], calls[k])

\* C23 witness: three calls for server b: it is not configured, then it has
\* been added and is found, then it has been removed again.
C23_Witness ==
    /\ mode = "resolve_sequence"
    /\ calls = <<(<<"b">>), (<<"b">>), (<<"b">>)>> /\ Len(res) = 3
    /\ ServerNotConfigured(res[1], <<"b">>)
    /\ res[2].ok /\ res[2].val = E2
    /\ ServerNotConfigured(res[3], <<"b">>)

Launched(i) == proc[i].state # "none"

\* C24: the calls of a batch share nothing: a call that reached the
\* transport has a process of its own, started with the command of its own
\* server and given the one request built from its own descriptor; no two
\* requests of the batch have the same id; and the outcome of a call whose
\* process has exited is the one the output of that very process dictates.
C24_NothingShared ==
    \A i \in 1..Len(calls) :
        /\ Launched(i) =>
              LET parsed == parse_mcp_tool_name(calls[i].tool)
                  config == get_mcp_server_config(env, parsed.val[1])
              IN  /\ parsed.ok /\ config.ok
                  /\ proc[i].argv[1] = config.val.command
                  /\ Len(proc[i].stdin) = 1
                  /\ proc[i].stdin[1].id = req[i].id
                  /\ proc[i].stdin[1].params.name = parsed.val[2]
                  /\ proc[i].stdin[1].params.arguments = Parameters(calls[i])
        /\ \A j \in 1..Len(calls) :
              (i # j /\ req[i] # NoReq /\ req[j] # NoReq) => req[i].id # req[j].id
        /\ proc[i].state = "exited" =>
              /\ pc[i] = "done"
              /\ res[i] = WrapFailure(calls[i].tool, ParseResponse(proc[i].stdout))

\* C24 witness: two calls of the same tool whose processes answered
\* differently, the second exiting first; each call has its own answer.
C24_Witness ==
    /\ Len(calls) = 2 /\ calls[1].tool = calls[2].tool
    /\ proc[1].state = "exited" /\ proc[2].state = "exited"
    /\ order = <<2, 1>>
    /\ res[1].ok /\ res[1].val = 1
    /\ ~res[2].ok /\ IsToolError(TransportOutcome(2))
    /\ req[1].id # req[2].id

\* ---- progress of a batch
\* C25: when every started server process exits, call_mcp_tools_parallel_safe
\* returns, and every call of the batch is started and reaches its own
\* outcome, also when other calls of the batch have failed before it at
\* parse, resolve or launch.
C25_BatchProgress ==
    /\ <>(caller = "resumed")
    /\ \A i \in 1..MaxCalls :
         (i <= Len(calls)) ~> (i <= Len(calls) /\ pc[i] = "done" /\ Has(trace[i], "parse"))

\* C25 witness: the first call failed at parse before the second was
\* started; the second went through its transport, and the batch returned.
C25_Witness ==
    /\ Resumed("call_mcp_tools_parallel_safe")
    /\ Len(calls) = 2 /\ order = <<1, 2>>
    /\ res[1].type = "ValueError"
    /\ Last(trace[2]) = "decode" /\ res[2].ok

\* ---- the configuration path
\* C26: when MCP_CONFIG_PATH designates a path, only that path is used: with
\* no file there the resolution fails with ConfigNotFound naming that path,
\* and the outcome is the same whatever is at the path under the home
\* directory; when it designates none (unset or empty) the path under the
\* home directory is used, whatever is at the other path.
C26_EnvPathOnly ==
    Applied("resolve") =>
        IF arg[1].var = EnvPath
        THEN /\ arg[1].files[EnvPath].kind = "absent" =>
                  ConfigNotFound(out) /\ out.msg[2] = EnvPath
             /\ \A home \in Contents :
                  get_mcp_server_config(Environment(EnvPath, home, arg[1].files[EnvPath]),
                                        arg[2]) = out
        ELSE /\ arg[1].files[HomePath].kind = "absent" =>
                  ConfigNotFound(out) /\ out.msg[2] = HomePath
             /\ \A other \in Contents :
                  get_mcp_server_config(Environment(arg[1].var, arg[1].files[HomePath], other),
                                        arg[2]) = out

\* C26 witness: MCP_CONFIG_PATH names a path without a file while the file
\* under the home directory lists the server: ConfigNotFound.
C26_Witness ==
    /\ Applied("resolve")
    /\ arg[1].var = EnvPath /\ arg[1].files[EnvPath] = Absent
    /\ arg[1].files[HomePath].kind = "doc" /\ arg[2] \in DOMAIN arg[1].files[HomePath].servers
    /\ ConfigNotFound(out)

\* ---- the request and the command line
\* C27: the request written to the server process has jsonrpc '2.0', method
\* 'tools/call', params.name equal to the tool component of the identifier
\* (the third segment: not the identifier, not the server name) and
\* params.arguments equal to the caller's arguments, the empty mapping when
\* the caller gave none.
C27_RequestContent ==
    \A i \in 1..Len(calls) :
        Launched(i) =>
            LET request == proc[i].stdin[1]
                parts   == Split(calls[i].tool)
            IN  /\ request.jsonrpc = "2.0"
                /\ request.method = "tools/call"
                /\ request.params.name = parts[3]
                /\ request.params.name # calls[i].tool
                /\ request.params.name # parts[2]
                /\ request.params.arguments =
                      IF calls[i].parameters = "absent" THEN "{}" ELSE calls[i].parameters

\* C27 witness: call_mcp_tool('mcp__a__t') without arguments has sent a
\* request for tool 't' with the empty mapping.
C27_Witness ==
    /\ Resumed("call_mcp_tool")
    /\ calls[1] = [tool |-> IdOk, parameters |-> "absent"]
    /\ Launched(1)
    /\ proc[1].stdin[1].params = [name |-> <<"t">>, arguments |-> "{}"]

\* C28: a call to a configured server whose entry has no 'args' field does
\* not fail for that: the command is started, with an argument vector that
\* holds the command alone.
C28_NoArgsEmpty ==
    \A i \in 1..Len(calls) :
        LET parsed == parse_mcp_tool_name(calls[i].tool)
            config == get_mcp_server_config(env, parsed.val[1])
        IN  (parsed.ok /\ config.ok /\ ~config.val.hasArgs) =>
                /\ pc[i] \in {"launching", "running", "done"} =>
                      Has(trace[i], "spawn") /\ req[i].args = <<>>
                /\ Launched(i) => proc[i].argv = <<config.val.command>>

\* C28 witness: a call to such a server returned a result.
C28_Witness ==
    /\ Resumed("call_mcp_tool") /\ ret.ok
    /\ env.files[ConfigPath(env)].servers[<<"a">>] = E3
    /\ proc[1].state = "exited" /\ proc[1].argv = <<"python">>

\* ---- call_with_retry
Attempts == SelectSeq(trace, LAMBDA ev : ev.e = "attempt")

Sleeps == SelectSeq(trace, LAMBDA ev : ev.e = "sleep")

\* C29: for max_retries >= 1 call_with_retry makes at most max_retries
\* attempts, numbered from 0 and one after the other; every attempt before
\* the latest one failed, so nothing follows a success; the result of the
\* first success is returned; and when max_retries attempts have failed the
\* error of the last one is raised.
C29_AtMostMaxRetries ==
    (mode = "call_with_retry" /\ arg.max_retries >= 1) =>
        /\ Len(Attempts) <= arg.max_retries
        /\ \A k \in 1..Len(Attempts) : Attempts[k].v = k - 1
        /\ Len(Attempts) = Len(res) + (IF caller \in {"call", "in_call"} /\ Attempts # <<>>
                                        THEN 1 ELSE 0)
        /\ \A k \in 1..(Len(res) - 1) : ~res[k].ok
        /\ (res # <<>> /\ Last(res).ok) => caller = "returned"
        /\ caller = "returned" => ret.ok /\ ret = Last(res)
        /\ (caller = "raised" /\ Len(res) = arg.max_retries) => ret = res[arg.max_retries]

\* C29 witness: three attempts failed, the first and the last differently,
\* and the error of the third is raised.
C29_Witness ==
    /\ mode = "call_with_retry" /\ arg.max_retries = 3
    /\ caller = "raised" /\ Len(res) = 3
    /\ res[1] # res[3] /\ ret = res[3]

RECURSIVE Power(_, _)
Power(x, k) == IF k = 0 THEN 1 ELSE x * Power(x, k - 1)

\* C30: call_with_retry waits after every failed attempt that is not the
\* last, and only then: the wait after failed attempt k is
\* min(initial_delay * backoff_multiplier^k, max_delay), none exceeds
\* max_delay, nothing is waited after the last attempt or after a success,
\* and a failures followed by a success make exactly a waits.
C30_BackoffWaits ==
    (mode = "call_with_retry" /\ arg.max_retries >= 1) =>
        /\ Len(Sleeps) =
              Cardinality({ k \in 1..Len(res) : ~res[k].ok /\ k - 1 < arg.max_retries - 1 })
        /\ \A k \in 1..Len(Sleeps) :
              /\ Sleeps[k].v = Min(arg.initial_delay * Power(arg.backoff_multiplier, k - 1),
                                   arg.max_delay)
              /\ Sleeps[k].v <= arg.max_delay
        /\ caller \in {"returned", "raised"} => Last(trace).e = "attempt"
        /\ caller = "returned" => Len(Sleeps) = Len(res) - 1

\* ---- fetch_data_with_recovery
Answered(k) == Len(proc) >= k /\ proc[k].outcome.type # "pending"

PrimaryFailed == caller = "raised"

SecondaryFailed == Answered(1) /\ ~proc[1].outcome.ok

\* The cache strategy fails when the tool fails and when what it hands back
\* holds no non-empty 'value'.
CacheFailed ==
    /\ Answered(2)
    /\ ~(/\ proc[2].outcome.ok
         /\ proc[2].outcome.val.t = "dict"
         /\ proc[2].outcome.val.value # 0)

StrategyLabels == <<"Primary service", "Secondary service", "Cache">>

FailedStrategies ==
    (IF PrimaryFailed THEN 1 ELSE 0) + (IF SecondaryFailed THEN 1 ELSE 0)
        + (IF CacheFailed THEN 1 ELSE 0)

\* C31: fetch_data_with_recovery calls the primary service (through
\* call_with_retry) first, the secondary only after the primary has finally
\* failed, the cache only after the secondary has failed; it never raises;
\* its result has success = false and source 'default' exactly when all
\* three strategies failed, otherwise the source is the first strategy that
\* did not fail; and errors has one entry per failed strategy, in order.
C31_StrategiesInOrder ==
    mode = "fetch_data_with_recovery" =>
        /\ Len(proc) <= 2
        /\ \A k \in 1..Len(proc) :
              proc[k].tool = <<"mcp__secondary__get_data", "mcp__cache__get">>[k]
        /\ Len(proc) >= 1 => PrimaryFailed /\ Len(res) = arg.max_retries
        /\ Len(proc) = 2 => SecondaryFailed
        /\ out.type \in {"pending", "none"}
        /\ (fn = "done") = out.ok
        /\ fn = "done" =>
              /\ out.val.success = (FailedStrategies < 3)
              /\ out.val.source =
                    IF ~PrimaryFailed THEN "primary"
                    ELSE IF ~SecondaryFailed THEN "secondary"
                    ELSE IF ~CacheFailed THEN "cache"
                    ELSE "default"
              /\ Len(out.val.errors) = FailedStrategies
              /\ \A k \in 1..Len(out.val.errors) : out.val.errors[k][1] = StrategyLabels[k]

\* C31 witness: the primary failed three times, the secondary failed, the
\* cache tool answered with a list: the default result with three errors.
C31_Witness ==
    /\ mode = "fetch_data_with_recovery" /\ fn = "done"
    /\ Len(res) = 3 /\ Len(proc) = 2
    /\ proc[2].outcome.ok /\ proc[2].outcome.val.t = "list"
    /\ ~out.val.success /\ out.val.source = "default" /\ Len(out.val.errors) = 3

\* C34: the 'attempts' field of the result equals the number of tool
\* invocations made during the fetch: the attempts of call_with_retry plus
\* the calls of the secondary service and of the cache.
C34_AttemptsCounted ==
    (mode = "fetch_data_with_recovery" /\ fn = "done") =>
        out.val.attempts = Len(res) + Len(proc)

\* ---- cascading_fallback
\* The sources the metadata in use select, in the fixed order.
Selected ==
    SelectSeq(<<"cache", "database", "api", "storage">>,
              LAMBDA n : \/ n = "cache" /\ arg.cached
                         \/ n = "database" /\ arg.source = "database"
                         \/ n = "api" /\ arg.source \in {"api", "unknown"}
                         \/ n = "storage")

\* Source k answered with non-empty data.
Usable(k) ==
    /\ Answered(k) /\ proc[k].outcome.ok
    /\ proc[k].outcome.val.t = "dict" /\ proc[k].outcome.val.data # 0

\* C32: the source tools cascading_fallback invokes are, in order, a prefix
\* of cache, database, api, storage restricted to the sources the metadata
\* select, storage being selected always and last; a source is invoked only
\* after every source before it failed or answered empty; the data of the
\* first source with non-empty data are returned, with its tool; and
\* success = false with tool 'none' is returned only when all selected
\* sources, storage last, failed or answered empty.
C32_CascadeOrder ==
    (mode = "cascading_fallback" /\ proc # <<>>) =>
        /\ Last(Selected) = "storage"
        /\ Len(proc) <= Len(Selected)
        /\ \A k \in 1..Len(proc) : proc[k].tool = ToolOf(Selected[k])
        /\ \A k \in 1..(Len(proc) - 1) : Answered(k) /\ ~Usable(k)
        /\ Usable(Len(proc)) =>
              /\ out.ok /\ out.val.success
              /\ out.val.tool = Last(proc).tool
              /\ out.val.data = Last(proc).outcome.val.data
        /\ (out.ok /\ out.val.success) => Usable(Len(proc))
        /\ (out.ok /\ ~out.val.success) =>
              /\ out.val.tool = "none"
              /\ Len(proc) = Len(Selected)
              /\ Last(proc).tool = "mcp__storage__retrieve"
              /\ \A k \in 1..Len(proc) : Answered(k) /\ ~Usable(k)

\* C32 witness: the metadata select cache and database; the cache answered
\* empty, the database had the data, and storage was not called.
C32_Witness ==
    /\ mode = "cascading_fallback" /\ fn = "done"
    /\ Len(proc) = 2 /\ proc[1].outcome.ok /\ ~Usable(1)
    /\ ret.ok /\ arg.cached /\ arg.source = "database"
    /\ out.ok /\ out.val.success /\ out.val.tool = "mcp__database__get" /\ out.val.data = 5

\* Steps of the workflow that finished, in order, in the current state:
\* step 1 when the query returned, steps 2 and 3 when every record could be
\* transformed, step 4 when bulk_insert returned, step 5 when write_file did.
Transformable(o) ==
    /\ o.ok /\ o.val.t = "list"
    /\ \A k \in 1..Len(o.val.records) : o.val.records[k] # "broken"

StepsFinished ==
    IF ~proc[1].outcome.ok THEN 0
    ELSE IF ~Transformable(proc[1].outcome) THEN 1
    ELSE IF Len(proc) < 2 \/ ~proc[2].outcome.ok THEN 3
    ELSE IF Len(proc) < 3 \/ ~proc[3].outcome.ok THEN 4
    ELSE 5

\* C33: multi_tool_workflow returns a record and never raises;
\* steps_completed is the number of steps that finished before the first
\* failure, 5 exactly when success is true and less than 5 otherwise; and
\* bulk_insert and write_file are invoked only after every earlier step
\* completed.
C33_StepsCounted ==
    mode = "multi_tool_workflow" =>
        /\ Len(proc) >= 2 => Transformable(proc[1].outcome)
        /\ Len(proc) >= 3 => proc[2].outcome.ok
        /\ fn = "done" =>
              /\ out.ok
              /\ out.val.steps_completed = StepsFinished
              /\ out.val.success <=> out.val.steps_completed = 5
              /\ ~out.val.success => out.val.steps_completed < 5

C33_Witness ==
    /\ mode = "multi_tool_workflow" /\ fn = "done"
    /\ Len(proc) = 2 /\ proc[2].outcome.ok
    /\ req.raw_data.records = <<>>
    /\ out.ok /\ ~out.val.success /\ out.val.steps_completed = 4
    /\ out.val.error = StrOf(Raise("ZeroDivisionError", <<"division by zero">>))

\* A record with an 'error' or a 'result' field.
Decisive(l) == l.t = "obj" /\ l.has # {}

\* Index of the first such record of a stream, 0 when it has none.
FirstDecisive(stdout) ==
    IF \E k \in 1..Len(stdout) : Decisive(stdout[k])
    THEN CHOOSE k \in 1..Len(stdout) :
             Decisive(stdout[k]) /\ \A j \in 1..(k - 1) : ~Decisive(stdout[j])
    ELSE 0

\* The outcome is the one the record l alone decides.
DecidedBy(o, l) ==
    IF "error" \in l.has
    THEN ~o.ok /\ o.type = "MCPError" /\ Len(o.msg) = 2 /\ o.msg[2] = json_dumps(l.error)
    ELSE o.ok /\ o.val = l.result

\* C35: the id of a response record is never compared with the id of the
\* request: the first record with an 'error' or 'result' field decides
\* the outcome whatever id it carries, a record without id included.
C35_IdNeverCompared ==
    (mode = "call_mcp_tool_via_stdio" /\ fn = "done") =>
        LET k == FirstDecisive(proc[1].stdout)
        IN  IF k = 0 THEN out = NoResponse ELSE DecidedBy(out, proc[1].stdout[k])

C35_Witness ==
    /\ mode = "call_mcp_tool_via_stdio" /\ fn = "done"
    /\ Len(proc[1].stdout) = 2
    /\ proc[1].stdout[1].has = {"result"} /\ proc[1].stdout[1].id \notin {0, req.id}
    /\ proc[1].stdout[2].has = {"error"} /\ proc[1].stdout[2].id = req.id
    /\ out.ok /\ out.val = proc[1].stdout[1].result

\* C36: the exit status of the server process does not influence the
\* outcome: the outcome is the one the same output gives with status zero;
\* a non-zero exit after a result record yields that result, and a zero
\* exit without a usable record yields the no-response failure.
C36_ExitStatusIrrelevant ==
    (mode = "call_mcp_tool_via_stdio" /\ fn = "done") =>
        LET p == proc[1]
            k == FirstDecisive(p.stdout)
        IN  /\ out = AfterCommunicate(p.stdout, p.stderr)
            /\ (p.returncode # 0 /\ k # 0) => DecidedBy(out, p.stdout[k])
            /\ (p.returncode = 0 /\ k = 0) => out = NoResponse

C36_Witness ==
    /\ mode = "call_mcp_tool_via_stdio" /\ fn = "done"
    /\ proc[1].returncode # 0
    /\ Len(proc[1].stdout) = 1 /\ proc[1].stdout[1].has = {"result"}
    /\ out.ok /\ out.val = proc[1].stdout[1].result

\* Position in the completion order of the first call that failed.
FirstFailure ==
    CHOOSE k \in 1..Len(order) :
        ~res[order[k]].ok /\ \A j \in 1..(k - 1) : res[order[j]].ok

\* C37: when call_mcp_tools_parallel fails because one call failed, the
\* sibling calls are not cancelled: a coroutine is done only with an
\* outcome of its own, a process that is running still has its coroutine
\* waiting for it and can exit by itself, and the failure the caller gets is
\* the first one, whatever the siblings produce afterwards.
C37_SiblingsNotCancelled ==
    (mode = "call_mcp_tools_parallel" /\ caller # "call" /\ ~outer.ok /\ outer.type # "pending") =>
        /\ \A i \in 1..N :
             /\ pc[i] = "done" <=> res[i].type # "pending"
             /\ proc[i].state = "running" <=> pc[i] = "running"
             /\ pc[i] = "done" => proc[i].state \in {"none", "exited"}
             /\ pc[i] = "running" => ENABLED ProcessExit(i, MainStreams)
             /\ pc[i] = "launching" => ENABLED LaunchProcess(i)
             /\ pc[i] = "ready" => ENABLED StartCall(i)
        /\ outer = res[order[FirstFailure]]
        /\ caller = "resumed" => ret = outer

C37_Witness ==
    /\ mode = "call_mcp_tools_parallel" /\ caller = "resumed" /\ N = 2
    /\ Len(order) = 2
    /\ ~ret.ok /\ ret = res[order[1]]
    /\ pc[order[2]] = "done" /\ proc[order[2]].state = "exited" /\ res[order[2]].ok

====
